---- MODULE Spec2Model ----
(***************************************************************************)
(* A model of the network subsystem of webdavfs                            *)
(* (mount.tproj/webdav_network.c): the pool of read-stream records, the    *)
(* SSL trust negotiator, the three stream transaction variants and the     *)
(* transaction/authentication loop that drives them.                       *)
(*                                                                         *)
(* Each thread of the daemon is a process of the model.  A thread's        *)
(* position in the code is th[t].pc:                                       *)
(*   idle      outside any transaction                                     *)
(*   loop      at the top of the do { } while loop of send_transaction,    *)
(*             network_open or network_fsync                               *)
(*   acquire   in open_stream_for_transaction, before get_ReadStreamRec    *)
(*   opening   holding a ReadStreamRec, inside CFReadStreamOpen            *)
(*   reading   stream open, inside the CFReadStreamRead loop               *)
(*   ssl_check, ssl_create, ssl_classify, ssl_confirm                      *)
(*             inside HandleSSLErrors                                      *)
(*   download  inside network_finish_download                              *)
(*   translate the loop has ended with error == 0, before                  *)
(*             translate_status_to_error                                   *)
(*   done      the top-level call has returned th[t].error                 *)
(***************************************************************************)
EXTENDS Integers, FiniteSets, Sequences, TLC

VARIABLES
    gReadStreams,        \* the ReadStreamRec table: slot -> [inUse, readStreamRef, connectionClose]
    gSSLPropertiesDict,  \* the global pointer: 0 (NULL) or the id of a dictionary
    sslDicts,            \* the heap of dictionaries created by HandleSSLErrors: id -> key -> value
    connectionstate,     \* get_connectionstate() / set_connectionstate()
    gSuppressAllUI,      \* set once at start-up
    gNetworkGlobals,     \* what gNetworkGlobals_lock protects: gProxyDict and the proxy settings
    downloadQueue,       \* downloads handed to requestqueue_enqueue_download, not yet picked up
    th                   \* per-thread locals and position

vars == <<gReadStreams, gSSLPropertiesDict, sslDicts, connectionstate,
          gSuppressAllUI, gNetworkGlobals, downloadQueue, th>>

-----------------------------------------------------------------------------
(* Bounds of the model *)

\* number of request threads; the table has one more record, for the pulse thread
WEBDAV_REQUEST_THREADS == 1
\* at most this many 401/407 responses are answered in one top-level transaction
MaxAuthRounds == 1
\* the largest status code handed to translate_status_to_error
MaxStatusCode == 699
\* bytes downloaded at open before the rest is handed off (the page size, scaled down)
first_read_len == 2
\* the longest response body of a GET
MaxBodyLen == 3

-----------------------------------------------------------------------------
(* errno values (Darwin) *)
EPERM == 1
ENOENT == 2
EIO == 5
ENXIO == 6
EACCES == 13
EBUSY == 16
EINVAL == 22
ENOSPC == 28
EPIPE == 32
EAGAIN == 35
ECONNRESET == 54
ENAMETOOLONG == 63
ENODEV == 19
ENOTEMPTY == 66
EAUTH == 80
ECANCELED == 89

(* SecureTransport result codes used by HandleSSLErrors *)
errSSLProtocol == -9800
errSSLXCertChainInvalid == -9807
errSSLBadCert == -9808
errSSLCrypto == -9809
errSSLUnknownRootCert == -9812
errSSLNoRootCert == -9813
errSSLCertExpired == -9814
errSSLCertNotYetValid == -9815
errSSLClosedNoNotify == -9816
errSSLPeerBadCert == -9825
errSSLIllegalParam == -9830
errSSLPeerAccessDenied == -9832
errSSLHostNameMismatch == -9843
errSSLLast == -9849

NULL == 0
NoRec == -1
\* a non-NULL readStreamRef
OpenStream == 1

Threads == 1 .. (WEBDAV_REQUEST_THREADS + 1)
PulseThread == WEBDAV_REQUEST_THREADS + 1
RequestThreads == 1 .. WEBDAV_REQUEST_THREADS
Slots == 0 .. WEBDAV_REQUEST_THREADS

Variants == {"buf", "get", "file"}

WEBDAV_CONNECTION_UP == "UP"
WEBDAV_CONNECTION_DOWN == "DOWN"

WEBDAV_DOWNLOAD_NEVER == "NEVER"
WEBDAV_DOWNLOAD_IN_PROGRESS == "IN_PROGRESS"
WEBDAV_DOWNLOAD_FINISHED == "FINISHED"
NoNode == "none"

-----------------------------------------------------------------------------
(* Stream errors: what CFReadStreamGetError reports *)

POSIXError(e) == [domain |-> "POSIX", error |-> e]
SSLError(e) == [domain |-> "SSL", error |-> e]
NoStreamError == [domain |-> "none", error |-> 0]

SSLCodes == errSSLLast .. errSSLProtocol
AllStreamErrors ==
    {POSIXError(EPIPE), POSIXError(ECONNRESET)} \cup {SSLError(e) : e \in SSLCodes}
PosixStreamErrors == {POSIXError(EPIPE), POSIXError(ECONNRESET)}

IsEPIPE(se) == se.domain = "POSIX" /\ se.error = EPIPE

-----------------------------------------------------------------------------
(* translate_status_to_error *)

translate_4xx_conflictBusy(statusCode) ==
    CASE statusCode \in {401, 407} -> EAUTH
      [] statusCode \in {402, 403} -> EPERM
      [] statusCode \in {404, 410} -> ENOENT
      [] statusCode \in {409, 414, 423, 424} -> EBUSY
      [] OTHER -> EINVAL
translate_4xx(statusCode) ==
    CASE statusCode \in {401, 407} -> EAUTH
      [] statusCode \in {402, 403} -> EPERM
      [] statusCode \in {404, 409, 410} -> ENOENT
      [] statusCode = 414 -> EBUSY      \* sets ENAMETOOLONG, then falls through to case 423
      [] statusCode \in {423, 424} -> EBUSY
      [] OTHER -> EINVAL

translate_status_to_error(statusCode) ==
    CASE statusCode \div 100 = 1 -> ENOENT
      [] statusCode \div 100 = 2 -> 0
      [] statusCode \div 100 = 3 -> ENOENT
      [] statusCode \div 100 = 4 -> translate_4xx(statusCode)
      [] statusCode \div 100 = 5 -> IF statusCode = 507 THEN ENOSPC ELSE ENOENT
      [] OTHER -> EIO

-----------------------------------------------------------------------------
(* The ReadStreamRec pool *)

\* the test of get_ReadStreamRec's scan: a record not in use
SlotFree_ignoresInUse(streams, index) == TRUE
SlotFree(streams, index) == ~streams[index].inUse

\* the for loop of get_ReadStreamRec: the value of `result' when the loop ends
ScanReadStreams_firstFree(streams, index, result) ==
    LET free == {i \in Slots : ~streams[i].inUse}
    IN  IF free = {} THEN NoRec ELSE CHOOSE i \in free : \A j \in free : i <= j
RECURSIVE ScanReadStreams(_, _, _)
ScanReadStreams(streams, index, result) ==
    IF index >= WEBDAV_REQUEST_THREADS + 1 THEN result
    ELSE IF SlotFree(streams, index)
         THEN IF streams[index].readStreamRef # NULL
              THEN index                                   \* open: grab it and break
              ELSE IF result = NoRec
                   THEN ScanReadStreams(streams, index + 1, index)  \* first closed one
                   ELSE ScanReadStreams(streams, index + 1, result)
         ELSE ScanReadStreams(streams, index + 1, result)

get_ReadStreamRec_shares(streams) ==
    IF ScanReadStreams(streams, 0, NoRec) = NoRec THEN 0 ELSE ScanReadStreams(streams, 0, NoRec)
get_ReadStreamRec(streams) == ScanReadStreams(streams, 0, NoRec)

\* get_ReadStreamRec marks the record it returns; nRelease counts, for the properties,
\* the release_ReadStreamRec calls made on the record since it was last handed out
MarkInUse_forgets(streams, r) == streams
MarkInUse(streams, r) ==
    IF r = NoRec THEN streams
    ELSE [streams EXCEPT ![r].inUse = TRUE, ![r].nRelease = 0]

release_ReadStreamRec_leaks(streams, r) == streams
release_ReadStreamRec(streams, r) ==
    [streams EXCEPT ![r].inUse = FALSE, ![r].nRelease = IF @ < 2 THEN @ + 1 ELSE @]

\* CFReadStreamClose + CFRelease + readStreamRef = NULL
CloseStream_leavesOpen(streams, r) == streams
CloseStream(streams, r) == [streams EXCEPT ![r].readStreamRef = NULL]

-----------------------------------------------------------------------------
(* The SSL trust negotiator: the classification done by HandleSSLErrors *)

kCFStreamSSLLevel == "kCFStreamSSLLevel"
kCFStreamSSLAllowsExpiredCertificates == "kCFStreamSSLAllowsExpiredCertificates"
kCFStreamSSLAllowsExpiredRoots == "kCFStreamSSLAllowsExpiredRoots"
kCFStreamSSLValidatesCertificateChain == "kCFStreamSSLValidatesCertificateChain"
kCFStreamSSLAllowsAnyRoot == "kCFStreamSSLAllowsAnyRoot"

SSLKeys == {kCFStreamSSLLevel, kCFStreamSSLAllowsExpiredCertificates,
            kCFStreamSSLAllowsExpiredRoots, kCFStreamSSLValidatesCertificateChain,
            kCFStreamSSLAllowsAnyRoot}

Absent == "absent"       \* CFDictionaryGetValue returns NULL
SSLValues == {Absent, "kCFStreamSocketSecurityLevelSSLv3", "kCFBooleanTrue", "kCFBooleanFalse"}

\* CFDictionaryCreateMutable
EmptyDict == [k \in SSLKeys |-> Absent]

\* the error ranges for which falling back from TLS to SSL is tried
InFallbackRange(error) ==
    \/ (error <= errSSLProtocol /\ error > errSSLXCertChainInvalid)
    \/ (error <= errSSLCrypto /\ error > errSSLUnknownRootCert)
    \/ (error <= errSSLClosedNoNotify /\ error > errSSLPeerBadCert)
    \/ error = errSSLIllegalParam
    \/ (error <= errSSLPeerAccessDenied /\ error > errSSLLast)

\* the cases of the switch
CertClass(error) ==
    CASE error \in {errSSLCertExpired, errSSLCertNotYetValid} -> "expired"
      [] error \in {errSSLBadCert, errSSLXCertChainInvalid, errSSLHostNameMismatch} -> "badcert"
      [] error \in {errSSLUnknownRootCert, errSSLNoRootCert} -> "root"
      [] OTHER -> "none"

\* the key whose absence makes the case ask the user
ClassKey(class) ==
    CASE class = "expired" -> kCFStreamSSLAllowsExpiredCertificates
      [] class = "badcert" -> kCFStreamSSLValidatesCertificateChain
      [] class = "root" -> kCFStreamSSLAllowsAnyRoot

\* the CFDictionarySetValue calls made when the user accepts
AcceptOverrides(dict, class) ==
    CASE class = "expired" ->
            [dict EXCEPT ![kCFStreamSSLAllowsExpiredCertificates] = "kCFBooleanTrue",
                         ![kCFStreamSSLAllowsExpiredRoots] = "kCFBooleanTrue"]
      [] class = "badcert" ->
            [dict EXCEPT ![kCFStreamSSLValidatesCertificateChain] = "kCFBooleanFalse"]
      [] class = "root" ->
            [dict EXCEPT ![kCFStreamSSLAllowsAnyRoot] = "kCFBooleanTrue"]

\* the test that selects the TLS -> SSLv3 fall back
WantsFallback(dict, error) ==
    dict[kCFStreamSSLLevel] = Absent /\ InFallbackRange(error)

\* the test that makes a certificate case call ConfirmCertificate
NeedsConfirm_ignoresBag(dict, error) == CertClass(error) # "none"
NeedsConfirm(dict, error) ==
    CertClass(error) # "none" /\ dict[ClassKey(CertClass(error))] = Absent

\* the property bag as the streams see it (ApplySSLProperties): NULL or the entries
CurrentBag ==
    IF gSSLPropertiesDict = NULL THEN EmptyDict ELSE sslDicts[gSSLPropertiesDict]

-----------------------------------------------------------------------------
(* Thread locals *)

\* no top-level call of the operations that record their entry
NoCall == [op |-> "none"]

\* header values and requests: a request is told by its method, its If header and its
\* Depth header
NoHeader == <<>>
NoMessage == [method |-> "none", ifHeader |-> NoHeader, depth |-> "none", uid |-> 0]

\* authcache_valid has not been called
NoValid == [uid |-> 0, message |-> NoMessage, generation |-> 0]

IdleThread ==
    [pc |-> "idle",
     variant |-> "none",             \* which loop the thread is in: send_transaction ("buf"),
                                     \* network_open ("get") or network_fsync ("file")
     retryTransaction |-> FALSE,
     rec |-> NoRec,                  \* readStreamRecPtr
     error |-> 0,
     statusCode |-> 0,
     node |-> NoNode,                \* node->file_status of the node the call works on
     streamError |-> NoStreamError,  \* CFReadStreamGetError of the failed stream
     ctx |-> "none",                 \* where the stream failed: "open" or "read"
     \* history of the current top-level call, kept for the properties
     nIssued |-> 0,                  \* streams handed to CFReadStreamOpen
     n401 |-> 0,                     \* 401/407 responses received
     nAgain |-> 0,                   \* calls of the variant that returned EAGAIN
     nEpipe |-> 0,                   \* POSIX EPIPE stream errors seen
     nCalls |-> 0,                   \* calls of the stream transaction variant
     vres |-> 0,                     \* what the last call of the variant returned
     applyFailed |-> FALSE,          \* authcache_apply returned an error
     responseRef |-> FALSE,          \* the loop's responseRef is not NULL
     nApply |-> 0,                   \* calls of authcache_apply
     apply |-> [statusCode |-> 0, responseRef |-> FALSE],  \* what the last one was given
     hdr |-> "none",                 \* how the calls that build conditional headers went
     auth_generation |-> 0,          \* the generation authcache_apply stored last
     nValid |-> 0,                   \* calls of authcache_valid
     valid |-> NoValid,              \* what the last one was given
     hse |-> 0,                      \* what the last HandleSSLErrors returned (0: not called)
     asked |-> FALSE,                \* that HandleSSLErrors ran ConfirmCertificate
     overrideHeld |-> FALSE,         \* the bag held the fault class's override when classified
     file |-> <<>>,                  \* the bytes of the node's cache file (node->file_fd)
     call |-> NoCall,                \* the top-level call and what it found on entry
     message |-> NoMessage,          \* the request the loop has built
     sent |-> <<>>,                  \* the requests of the call handed to CFReadStreamOpen
     respStatus |-> 0,               \* the status of the response the last attempt read
     respLen |-> 0,                  \* and the length of its body
     respClose |-> FALSE,            \* and that it carried Connection: close
     nEnqueue |-> 0,                 \* calls of requestqueue_enqueue_download
     dl |-> [observed |-> FALSE,     \* network_finish_download saw the terminated bit
             nWritten |-> 0,         \* the bytes it has written to the cache file
             atObserve |-> 0,        \* nWritten when it saw the bit
             nSmallReads |-> 0,      \* its 1-byte reads
             lastRead |-> 0],        \* what its last CFReadStreamRead returned
     setUp |-> FALSE,                \* the call has called set_connectionstate(UP)
     wentUp |-> FALSE]               \* and that changed the state from down to up

\* the condition of the do { } while of the transaction/authentication loop
LoopContinues_never401(error, statusCode) == error = EAGAIN
LoopContinues(error, statusCode) ==
    error = EAGAIN \/ statusCode = 401 \/ statusCode = 407

\* the code after the loop: the value the top-level call returns when no error broke the loop
FinalError(variant, statusCode) ==
    translate_status_to_error(IF variant = "get" /\ statusCode = 304 THEN 200 ELSE statusCode)

\* what the code after the loop gives authcache_valid
ValidArguments_initial(r) ==
    [uid |-> r.message.uid, message |-> r.message, generation |-> 0]
ValidArguments(r) ==
    [uid |-> r.message.uid, message |-> r.message, generation |-> r.auth_generation]

\* the code after a loop that no error broke: the status is translated, and
\* authcache_valid is called if it translates to no error
AfterLoop(r, status) ==
    LET error == FinalError(r.variant, status) IN
    IF error = 0
    THEN [r EXCEPT !.error = 0, !.statusCode = status, !.pc = "done",
                   !.nValid = @ + 1, !.valid = ValidArguments(r)]
    ELSE [r EXCEPT !.error = error, !.statusCode = status, !.pc = "done"]

\* the loop's code after the variant has returned `res' (with response status `status' when
\* res = 0): r is the thread's record when the variant returns
AfterVariant(r, res, status) ==
    LET r1 == [r EXCEPT !.vres = res, !.nCalls = @ + 1, !.rec = NoRec,
                        !.responseRef = (res = 0),
                        !.nAgain = @ + (IF res = EAGAIN THEN 1 ELSE 0),
                        !.n401 = @ + (IF res = 0 /\ status \in {401, 407} THEN 1 ELSE 0)] IN
    IF res = EAGAIN
    THEN [r1 EXCEPT !.error = res, !.statusCode = 0,
                    !.pc = IF LoopContinues(res, 0) THEN "loop" ELSE "done"]
    ELSE IF res # 0
    THEN [r1 EXCEPT !.error = res, !.pc = "done"]              \* break
    ELSE IF LoopContinues(res, status)
    THEN [r1 EXCEPT !.error = 0, !.statusCode = status, !.pc = "loop"]
    ELSE AfterLoop(r1, status)

-----------------------------------------------------------------------------
(* What a failed CFReadStreamOpen or CFReadStreamRead leads to *)

\* the EPIPE test and its else branch
StreamErrorDisposition_alwaysRetry(retry, se) ==
    IF IsEPIPE(se)
    THEN [result |-> EAGAIN, retry |-> FALSE, down |-> FALSE]
    ELSE [result |-> ENXIO, retry |-> retry, down |-> TRUE]
StreamErrorDisposition(retry, se) ==
    IF retry /\ IsEPIPE(se)
    THEN [result |-> EAGAIN, retry |-> FALSE, down |-> FALSE]
    ELSE [result |-> ENXIO, retry |-> retry, down |-> TRUE]

\* the connection state the failure code leaves: down unless the stream is retried
StateAfterFailure_upOnRetry(d, state) ==
    IF d.down THEN WEBDAV_CONNECTION_DOWN ELSE WEBDAV_CONNECTION_UP
StateAfterFailure(d, state) ==
    IF d.down THEN WEBDAV_CONNECTION_DOWN ELSE state

\* open_stream_for_transaction, after HandleSSLErrors returned hse
OpenFailure(hse, retry, se) ==
    IF hse = EAGAIN
    THEN [result |-> EAGAIN, retry |-> retry, down |-> FALSE]
    ELSE StreamErrorDisposition(retry, se)

\* stream_transaction's read loop, after HandleSSLErrors returned hse
ReadFailure(hse, retry, se) ==
    IF hse = EAGAIN
    THEN [result |-> EAGAIN, retry |-> retry, down |-> FALSE]
    ELSE IF hse = ECANCELED
    THEN [result |-> ECANCELED, retry |-> retry, down |-> FALSE]
    ELSE StreamErrorDisposition(retry, se)

\* the read loops of stream_get_transaction and stream_transaction_from_file
ReadFailureNoSSL_keepsUp(retry, se) == [result |-> ENXIO, retry |-> retry, down |-> FALSE]
ReadFailureNoSSL(retry, se) == StreamErrorDisposition(retry, se)

\* The rest of the variant after a stream error: r is the thread's record with
\* streamError and ctx set, hse what HandleSSLErrors returned (0 when it is not called).
FailAttempt(t, r, hse) ==
    LET d == IF r.ctx = "open" THEN OpenFailure(hse, r.retryTransaction, r.streamError)
             ELSE IF r.variant = "buf"
                  THEN ReadFailure(hse, r.retryTransaction, r.streamError)
                  ELSE ReadFailureNoSSL(r.retryTransaction, r.streamError)
        streams1 == IF r.ctx = "read" THEN CloseStream(gReadStreams, r.rec) ELSE gReadStreams
        r1 == [r EXCEPT !.retryTransaction = d.retry,
                        !.hse = hse,
                        !.nEpipe = @ + (IF IsEPIPE(r.streamError) THEN 1 ELSE 0)]
    IN  /\ gReadStreams' = release_ReadStreamRec(streams1, r.rec)
        /\ connectionstate' = StateAfterFailure(d, connectionstate)
        /\ th' = [th EXCEPT ![t] = AfterVariant(r1, d.result, 0)]

-----------------------------------------------------------------------------
(* The proxy settings: network_update_proxy *)

\* a value of the proxies dictionary: <<>> if the key is absent, <<v>> if it is v
NoValue == <<>>
kHttpDefaultPort == 80
kHttpsDefaultPort == 443

\* the host names a dictionary can hold; the second does not fit char[MAXHOSTNAMELEN]
ProxyHosts == {"proxy.example", "overlong.example"}
OverlongHosts == {"overlong.example"}
\* the port numbers a dictionary can hold; the last stands for a number with a fraction
\* (3128.5), which an int cannot hold exactly
ProxyPorts == {0, 8080, 3128}
FractionalPorts == {3128}

\* the entries of one scheme (HTTP or HTTPS): Enable, Proxy and Port
SchemeEntries ==
    [enable : {NoValue, <<0>>, <<1>>},
     host   : {NoValue} \cup {<<h>> : h \in ProxyHosts},
     port   : {NoValue} \cup {<<n>> : n \in ProxyPorts}]

\* what SCDynamicStoreCopyProxies can return: NULL or a dictionary
NoProxyDict == [null |-> TRUE, http |-> [enable |-> NoValue, host |-> NoValue, port |-> NoValue],
                https |-> [enable |-> NoValue, host |-> NoValue, port |-> NoValue]]
ProxyDicts ==
    {NoProxyDict} \cup {[null |-> FALSE, http |-> a, https |-> b] : a, b \in SchemeEntries}

\* CFNumberGetValue(number, kCFNumberIntType, &value): the int gets the whole part, and
\* the result is false if the conversion lost something
CFNumberGetValue(n) == [ok |-> n \notin FractionalPorts, value |-> n]

\* CFStringGetCString(host, buffer, sizeof(buffer), UTF8): the results for a buffer that
\* holds old. A host that does not fit fails, leaving the buffer as it was or holding the
\* bytes converted so far
CFStringGetCString(host, old) ==
    IF host \in OverlongHosts
    THEN {[ok |-> FALSE, buffer |-> b] : b \in {old, "overlong"}}
    ELSE {[ok |-> TRUE, buffer |-> host]}

\* the default disabled state
DisabledProxy == [Enabled |-> 0, Server |-> "", Port |-> 0]

\* the host buffer after the host step: the port is looked at only after the host was
\* copied into the global buffer
ProxyAfterHost(str) == str.buffer

\* the settings of one scheme after a refresh from entries e; str is the result of
\* CFStringGetCString
SchemeSettings(e, defaultPort, str) ==
    IF e.enable = NoValue \/ ~CFNumberGetValue(e.enable[1]).ok \/ CFNumberGetValue(e.enable[1]).value = 0
    THEN DisabledProxy
    ELSE IF e.host = NoValue
    THEN DisabledProxy
    ELSE IF ~str.ok
    THEN [DisabledProxy EXCEPT !.Server = ProxyAfterHost(str)]
    ELSE IF e.port = NoValue
    THEN [DisabledProxy EXCEPT !.Server = ProxyAfterHost(str)]
    ELSE LET num == CFNumberGetValue(e.port[1])
         IN  IF ~num.ok
             THEN [Enabled |-> 0, Server |-> ProxyAfterHost(str), Port |-> num.value]
             ELSE [Enabled |-> 1, Server |-> ProxyAfterHost(str),
                   Port |-> IF num.value = 0 THEN defaultPort ELSE num.value]

\* the results CFStringGetCString can have for the host of e, into a buffer just emptied
HostResults(e) ==
    IF e.host = NoValue THEN {[ok |-> FALSE, buffer |-> ""]}
    ELSE CFStringGetCString(e.host[1], "")

InitialNetworkGlobals ==
    [gProxyDict |-> NoProxyDict, http |-> DisabledProxy, https |-> DisabledProxy]

\* network_update_proxy: the settings are reset and then read from the dictionary that
\* SCDynamicStoreCopyProxies returns
network_update_proxy(dict) ==
    /\ \E s1 \in HostResults(dict.http), s2 \in HostResults(dict.https) :
          gNetworkGlobals' =
              [gProxyDict |-> dict,
               http  |-> IF dict.null THEN DisabledProxy
                         ELSE SchemeSettings(dict.http, kHttpDefaultPort, s1),
               https |-> IF dict.null THEN DisabledProxy
                         ELSE SchemeSettings(dict.https, kHttpsDefaultPort, s2)]
    /\ UNCHANGED <<gReadStreams, gSSLPropertiesDict, sslDicts, connectionstate,
                   gSuppressAllUI, downloadQueue, th>>

-----------------------------------------------------------------------------
(* Initial state: network_init has run, no transaction has *)

Init ==
    /\ gReadStreams = [s \in Slots |->
                          [inUse |-> FALSE, readStreamRef |-> NULL, connectionClose |-> FALSE,
                           nRelease |-> 0]]
    /\ gSSLPropertiesDict = NULL
    /\ sslDicts = [d \in Threads |-> EmptyDict]
    /\ connectionstate = WEBDAV_CONNECTION_UP
    /\ gSuppressAllUI \in BOOLEAN
    /\ gNetworkGlobals = InitialNetworkGlobals
    /\ downloadQueue = {}
    /\ th = [t \in Threads |-> IdleThread]

-----------------------------------------------------------------------------
(* The transaction/authentication loop *)

\* the cache file of a node when the call begins: empty if nothing was downloaded yet,
\* else what an earlier download wrote
OldFile == <<0>>
CacheFileOf(ns) == IF ns \in {WEBDAV_DOWNLOAD_NEVER, NoNode} THEN <<>> ELSE OldFile

\* A thread enters send_transaction (v = "buf"), the GET loop of network_open (v = "get",
\* on a node whose download status is ns) or the PUT loop of network_fsync (v = "file").
BeginTransaction(t, v, ns) ==
    /\ th[t].pc = "idle"
    /\ (v = "get") = (ns # NoNode)
    /\ th' = [th EXCEPT ![t] = [IdleThread EXCEPT !.pc = "loop", !.variant = v,
                                                 !.retryTransaction = TRUE, !.node = ns,
                                                 !.file = CacheFileOf(ns)]]
    /\ UNCHANGED <<gReadStreams, gSSLPropertiesDict, sslDicts, connectionstate,
                   gSuppressAllUI, gNetworkGlobals, downloadQueue>>

\* the AppleDouble header get_from_attributes_cache writes to the cache file
AppleDoubleHeader == <<-1>>
\* how get_from_attributes_cache goes: the header is not valid in the cache ("absent"),
\* fchflags, lseek or ftruncate fails ("require_failed"), the write is short
\* ("write_failed"), or the header is written ("ok")
AttrCacheOutcomes == {"absent", "require_failed", "write_failed", "ok"}

\* get_from_attributes_cache: its result, and the node's download status and cache file
\* after it
get_from_attributes_cache(ad) == ad = "ok"
StatusAfterAttrCache(ns, ad) ==
    CASE ad = "ok" -> WEBDAV_DOWNLOAD_FINISHED
      [] ad = "write_failed" -> WEBDAV_DOWNLOAD_NEVER
      [] OTHER -> ns
FileAfterAttrCache(file, ad) ==
    CASE ad = "ok" -> AppleDoubleHeader
      [] ad = "write_failed" -> <<>>
      [] OTHER -> file

\* the decision network_open makes first: whether to ask the server.  `invalid' is
\* NODE_FILE_INVALID(node), `recent' is NODE_FILE_RECENTLY_CREATED(node).
ask_server_onlyStatus(write_access, ns, invalid, recent, ad) ==
    ~(~write_access /\ ns = WEBDAV_DOWNLOAD_FINISHED /\ ~invalid)
ask_server(write_access, ns, invalid, recent, ad) ==
    IF ~write_access
    THEN IF ns = WEBDAV_DOWNLOAD_FINISHED /\ ~invalid
         THEN FALSE
         ELSE ~get_from_attributes_cache(ad)
    ELSE ~(recent /\ ns = WEBDAV_DOWNLOAD_FINISHED)

\* A thread enters network_open on a node whose download status is ns and whose
\* file_last_modified is lm: either it returns
\* success at once, or it enters the transaction loop with a GET.
network_open(t, write_access, ns, invalid, recent, ad, lm) ==
    /\ th[t].pc = "idle"
    /\ ns # NoNode
    /\ LET tried == ~write_access /\ ~(ns = WEBDAV_DOWNLOAD_FINISHED /\ ~invalid)
           ad1 == IF tried THEN ad ELSE "absent"
           r == [IdleThread EXCEPT !.variant = "get",
                                   !.node = StatusAfterAttrCache(ns, ad1),
                                   !.file = FileAfterAttrCache(CacheFileOf(ns), ad1),
                                   !.call = [op |-> "open", write_access |-> write_access,
                                             status |-> ns, invalid |-> invalid,
                                             attr |-> ad1, last_modified |-> lm]]
       IN  /\ (~tried => ad = "absent")
           /\ (~write_access => ~recent)
           /\ th' = [th EXCEPT ![t] =
                       IF ask_server(write_access, ns, invalid, recent, ad1)
                       THEN [r EXCEPT !.pc = "loop", !.retryTransaction = TRUE]
                       ELSE [r EXCEPT !.pc = "done", !.error = 0]]
    /\ UNCHANGED <<gReadStreams, gSSLPropertiesDict, sslDicts, connectionstate,
                   gSuppressAllUI, gNetworkGlobals, downloadQueue>>

\* Header values are sequences of characters.  The characters told apart: SP (linear
\* white space), the separators "<", ">", "," and ";", the control characters CR, LF and
\* one other (CTL), and token characters.
LWSChars == {" "}
Separators == {"<", ">", ",", ";", " "}
CTLs == {"CR", "LF", "CTL"}

\* SkipLWS: what is left after a run of linear white space; CR LF is skipped only if SP
\* or HT follows
RECURSIVE SkipLWS(_)
SkipLWS(bytes) ==
    IF bytes # <<>> /\ Head(bytes) \in LWSChars THEN SkipLWS(Tail(bytes))
    ELSE IF /\ Len(bytes) >= 3 /\ bytes[1] = "CR" /\ bytes[2] = "LF"
            /\ bytes[3] \in LWSChars
    THEN SkipLWS(SubSeq(bytes, 4, Len(bytes)))
    ELSE bytes

\* SkipToken: what is left after a token
RECURSIVE SkipToken(_)
SkipToken(bytes) ==
    IF bytes # <<>> /\ Head(bytes) \notin Separators \cup CTLs
    THEN SkipToken(Tail(bytes)) ELSE bytes

\* SkipCodedURL: what is left from the ">" that ends a Coded-URL, or nothing
RECURSIVE SkipCodedURL(_)
SkipCodedURL(bytes) ==
    IF bytes # <<>> /\ Head(bytes) # ">" THEN SkipCodedURL(Tail(bytes)) ELSE bytes

\* the run of commas ParseDAVLevel skips
SkipCommas_none(bytes) == bytes
RECURSIVE SkipCommas(_)
SkipCommas(bytes) ==
    IF bytes # <<>> /\ Head(bytes) = "," THEN SkipCommas(Tail(bytes)) ELSE bytes

\* the level a token of ParseDAVLevel gives, from the level so far
TokenLevel_last(token, dav_level) ==
    IF token = <<"1">> THEN 1 ELSE IF token = <<"2">> THEN 2 ELSE dav_level
TokenLevel(token, dav_level) ==
    IF Len(token) = 1
    THEN IF Head(token) = "1" /\ dav_level < 1 THEN 1
         ELSE IF Head(token) = "2" /\ dav_level < 2 THEN 2
         ELSE dav_level
    ELSE dav_level

\* One pass through the while loop of ParseDAVLevel: p.field_value is what is left of the
\* header value, p.dav_level the level so far, p.done says that the loop has ended.
ParseDAVIteration(p) ==
    LET fv1 == SkipLWS(p.field_value) IN
    IF p.field_value = <<>> \/ fv1 = <<>>
    THEN [p EXCEPT !.field_value = fv1, !.done = TRUE]
    ELSE LET coded == Head(fv1) = "<"
             url == SkipCodedURL(Tail(fv1))
             tok == SkipToken(fv1)
             fv2 == IF coded THEN (IF url # <<>> THEN Tail(url) ELSE url) ELSE tok
             level == IF coded THEN p.dav_level
                      ELSE TokenLevel(SubSeq(fv1, 1, Len(fv1) - Len(tok)), p.dav_level)
             fv3 == SkipLWS(fv2)
         IN  IF fv3 = <<>> THEN [field_value |-> fv3, dav_level |-> level, done |-> TRUE]
             ELSE IF Head(fv3) # ","
             THEN [field_value |-> fv3, dav_level |-> level, done |-> TRUE]     \* break
             ELSE [field_value |-> SkipCommas(fv3), dav_level |-> level,
                   done |-> SkipCommas(fv3) = <<>>]

\* the buffer ParseDAVLevel copies the header value to (4096 bytes, scaled down)
DAVBufferLen == 8

\* the C string ParseDAVLevel gets for a header value: CFStringGetCStringPtr gives it
\* (direct), or CFStringGetCString copies it if it fits the buffer with its terminator
HasCString(header, direct) == direct \/ Len(header) + 1 <= DAVBufferLen

\* ParseDAVLevel: the level for the DAV header value `header'
RECURSIVE ParseDAVLoop(_)
ParseDAVLoop(p) == IF p.done THEN p.dav_level ELSE ParseDAVLoop(ParseDAVIteration(p))
ParseDAVLevel(header, direct) ==
    IF HasCString(header, direct)
    THEN ParseDAVLoop([field_value |-> header, dav_level |-> 0, done |-> header = <<>>])
    ELSE 0

\* the header value made of a list of items (pieces of text) joined by commas
RECURSIVE JoinItems(_)
JoinItems(items) ==
    IF items = <<>> THEN <<>>
    ELSE IF Len(items) = 1 THEN items[1].text
    ELSE items[1].text \o <<",">> \o JoinItems(Tail(items))

\* lock tokens of a node (node->file_locktoken)
NoLockToken == "NULL"
LockTokens == {"opaquelocktoken:1"}

\* CFStringCreateWithFormat("(<%s>)", token)
IfHeaderValue(token) == <<"(<", token, ">)">>

\* the If header network_fsync and network_delete give their request: `created' says
\* that CFStringCreateWithFormat returned a string
LockHeader_never(token, created) == NoHeader
LockHeader(token, created) ==
    IF token # NoLockToken /\ created THEN IfHeaderValue(token) ELSE NoHeader

\* validators: the times DateStringToTime gives, entity tags, and the headers of a
\* response that carry them
NoEntityTag == "NULL"
LastModifiedHeaders == {"absent", "Thu, 01 Jan 1970 00:00:07 GMT", "unparsable"}
ETagHeaders == {"absent", "etag-1", "etag-of-4096-bytes"}

\* DateStringToTime: -1 if the string is not a date (and what *file_last_modified keeps
\* when there is no header)
DateStringToTime(h) == IF h = "Thu, 01 Jan 1970 00:00:07 GMT" THEN 7 ELSE -1

\* the entity tag network_fsync copies from the ETag header: none if the header is absent
\* or does not fit the buffer of 4096 bytes
EntityTagOf_anyLength(h) == IF h = "absent" THEN NoEntityTag ELSE h
EntityTagOf(h) == IF h \in {"absent", "etag-of-4096-bytes"} THEN NoEntityTag ELSE h

\* whether network_fsync sends its PROPFIND after a PUT that gave lm and tag
NeedsValidators_always(error, lm, tag) == error = 0
NeedsValidators(error, lm, tag) == error = 0 /\ lm = -1 /\ tag = NoEntityTag

\* the operations made of one or more transactions, and the record of such a call: the
\* transaction it is in (phase), what it was called with, what its responses gave, and
\* the node's validators
FileOperations == {"fsync", "remove", "rmdir", "rename"}
Operations == FileOperations \cup {"mount", "lock", "unlock"}
OpCall(op, phase) ==
    [op |-> op, phase |-> phase,
     locktoken |-> NoLockToken, created |-> TRUE,          \* the node's lock token
     to_node |-> "NULL", same |-> FALSE,                   \* network_rename's destination
     putLM |-> "absent", putETag |-> "absent",             \* headers of the PUT response
     error |-> 0,                                          \* of the transaction before
     num_entries |-> 0,                                    \* parse_file_count
     propLM |-> -1, propETag |-> NoEntityTag,              \* parse_cachevalidators
     last_modified |-> 0, entity_tag |-> "etag-0"]         \* the node's validators

\* the call has transactions or an epilogue left
Pending(r) == r.call.op \in Operations /\ r.call.phase # "end"

\* the request the loop builds for the transaction the call is in
\* the uids of users, and the uid the calls other than network_lock and network_unlock
\* are made with, which they pass on to send_transaction
Uids == {501, 502}
CallerUid == 501
NoUid == 0

\* the record of a call of network_lock or network_unlock: what it was called with, the
\* node's lock token and its uid, both also as they were on entry, and what parse_lock gave
LockOperations == {"lock", "unlock"}
LockCall(op, uid, refresh, token, token_uid) ==
    [op |-> op, phase |-> op, uid |-> uid, refresh |-> refresh,
     file_locktoken |-> token, file_locktoken_uid |-> token_uid,
     old_locktoken |-> token, old_uid |-> token_uid,
     transaction |-> 0, parse_lock |-> 0, locktoken |-> NoLockToken]

\* the uid network_lock gives send_transaction
LockUid_callers(call) == call.uid
LockUid(call) == IF call.refresh THEN call.file_locktoken_uid ELSE call.uid

MessageFor(call) ==
    IF call.op \notin Operations THEN NoMessage
    ELSE CASE call.phase = "put" ->
                  [method |-> "PUT", ifHeader |-> LockHeader(call.locktoken, call.created),
                   depth |-> "none", uid |-> CallerUid]
           [] call.phase = "delete" ->
                  [method |-> "DELETE", ifHeader |-> LockHeader(call.locktoken, call.created),
                   depth |-> "none", uid |-> CallerUid]
           [] call.phase = "propfind" ->
                  [method |-> "PROPFIND", ifHeader |-> NoHeader, depth |-> "0", uid |-> CallerUid]
           [] call.phase = "check" ->
                  [method |-> "PROPFIND", ifHeader |-> NoHeader, depth |-> "1", uid |-> CallerUid]
           [] call.phase = "move" ->
                  [method |-> "MOVE", ifHeader |-> NoHeader, depth |-> "none", uid |-> CallerUid]
           [] call.phase = "options" ->
                  [method |-> "OPTIONS", ifHeader |-> NoHeader, depth |-> "none", uid |-> CallerUid]
           [] call.phase = "stat" ->
                  [method |-> "PROPFIND", ifHeader |-> NoHeader, depth |-> "0", uid |-> CallerUid]
           [] call.phase = "lock" ->
                  [method |-> "LOCK",
                   ifHeader |-> IF call.refresh THEN IfHeaderValue(call.file_locktoken)
                                ELSE NoHeader,
                   depth |-> "0", uid |-> LockUid(call)]
           [] call.phase = "unlock" ->
                  [method |-> "UNLOCK", ifHeader |-> NoHeader, depth |-> "none",
                   uid |-> call.file_locktoken_uid]
           [] OTHER -> NoMessage

\* the RFC 1123 date string of a time, and CFStringCreateRFC2616DateStringWithTimeT: no
\* string for the time -1 or when the string cannot be created
RFC2616DateString(clock) ==
    CASE clock = 7 -> "Thu, 01 Jan 1970 00:00:07 GMT"
      [] clock = 9 -> "Thu, 01 Jan 1970 00:00:09 GMT"
      [] OTHER -> "Thu, 01 Jan 1970 00:00:00 GMT"
CFStringCreateRFC2616DateStringWithTimeT(clock, created) ==
    IF clock = -1 \/ ~created THEN NoHeader ELSE <<RFC2616DateString(clock)>>

\* how the calls that build the conditional headers go: all succeed ("ok"), the date
\* string cannot be created ("no_date"), lseek returns -1 ("lseek_failed"), the string of
\* the Range header cannot be created ("no_length")
HeaderOutcomes == {"ok", "no_date", "lseek_failed", "no_length"}

\* the conditional headers network_open gives its GET, on a node with download status
\* `status', validator `last_modified' and cache file `file'
ConditionalHeaders_rangeAlone(status, last_modified, file, hdr) ==
    [ifModifiedSince |-> NoHeader, ifRange |-> NoHeader,
     range |-> IF status = WEBDAV_DOWNLOAD_NEVER THEN NoHeader ELSE <<Len(file)>>]
ConditionalHeaders(status, last_modified, file, hdr) ==
    LET httpDateString ==
            IF status # WEBDAV_DOWNLOAD_NEVER
            THEN CFStringCreateRFC2616DateStringWithTimeT(last_modified, hdr # "no_date")
            ELSE NoHeader
        currentLength == IF hdr = "lseek_failed" THEN -1 ELSE Len(file)
        ranged == /\ httpDateString # NoHeader
                  /\ status # WEBDAV_DOWNLOAD_FINISHED
                  /\ currentLength # -1
                  /\ hdr # "no_length"
    IN  [ifModifiedSince |-> IF status = WEBDAV_DOWNLOAD_FINISHED
                             THEN httpDateString ELSE NoHeader,
         ifRange |-> IF ranged THEN httpDateString ELSE NoHeader,
         range |-> IF ranged THEN <<currentLength>> ELSE NoHeader]

\* the GET network_open builds in its loop: r is the thread's record
OpenMessage(r, hdr) ==
    LET c == ConditionalHeaders(r.node, r.call.last_modified, r.file, hdr) IN
    [method |-> "GET", ifHeader |-> NoHeader, depth |-> "none", uid |-> CallerUid,
     ifModifiedSince |-> c.ifModifiedSince, ifRange |-> c.ifRange, range |-> c.range]

\* the thread's record when the call starts its next transaction
StartTransaction(r, v, call) ==
    [IdleThread EXCEPT !.pc = "loop", !.variant = v, !.retryTransaction = TRUE,
                       !.call = call, !.sent = r.sent]

\* the thread's record when the call returns error
EndCall(r, call, error) ==
    [r EXCEPT !.pc = "done", !.error = error, !.call = [call EXCEPT !.phase = "end"]]

\* A thread enters network_fsync on a node with lock token `token'; urlOk says that
\* create_cfurl_from_node gave a URL.
network_fsync(t, urlOk, token, created) ==
    /\ th[t].pc = "idle"
    /\ (token = NoLockToken => created)
    /\ LET call == [OpCall("fsync", "put") EXCEPT !.locktoken = token, !.created = created] IN
       th' = [th EXCEPT ![t] = IF urlOk THEN StartTransaction(IdleThread, "file", call)
                               ELSE EndCall(IdleThread, call, EIO)]
    /\ UNCHANGED <<gReadStreams, gSSLPropertiesDict, sslDicts, connectionstate,
                   gSuppressAllUI, gNetworkGlobals, downloadQueue>>

\* A thread enters network_remove.
network_remove(t, urlOk, token, created) ==
    /\ th[t].pc = "idle"
    /\ (token = NoLockToken => created)
    /\ LET call == [OpCall("remove", "delete") EXCEPT !.locktoken = token,
                                                       !.created = created] IN
       th' = [th EXCEPT ![t] = IF urlOk THEN StartTransaction(IdleThread, "buf", call)
                               ELSE EndCall(IdleThread, call, EIO)]
    /\ UNCHANGED <<gReadStreams, gSSLPropertiesDict, sslDicts, connectionstate,
                   gSuppressAllUI, gNetworkGlobals, downloadQueue>>

\* A thread enters network_rmdir: network_dir_is_empty comes first.
network_rmdir(t, urlOk, token, created) ==
    /\ th[t].pc = "idle"
    /\ (token = NoLockToken => created)
    /\ LET call == [OpCall("rmdir", "check") EXCEPT !.locktoken = token,
                                                     !.created = created] IN
       th' = [th EXCEPT ![t] = IF urlOk THEN StartTransaction(IdleThread, "buf", call)
                               ELSE EndCall(IdleThread, call, EIO)]
    /\ UNCHANGED <<gReadStreams, gSSLPropertiesDict, sslDicts, connectionstate,
                   gSuppressAllUI, gNetworkGlobals, downloadQueue>>

\* the kinds of to_node network_rename tells apart: none, a file, a directory
ToNodes == {"NULL", "file", "dir"}

\* what network_rename does first once it has both URLs: nothing at all, the check of the
\* destination directory, or the MOVE
RenamePlan_ignoresSame(to_node, same) == IF to_node = "dir" THEN "check" ELSE "move"
RenamePlan(to_node, same) ==
    IF same THEN "end"
    ELSE IF to_node = "dir" THEN "check"
    ELSE "move"

\* A thread enters network_rename: `same' says that the source and destination URLs are
\* equal.
network_rename(t, urlOk, to_node, same) ==
    /\ th[t].pc = "idle"
    /\ (~urlOk => ~same)
    /\ LET plan == RenamePlan(to_node, same)
           call == [OpCall("rename", plan) EXCEPT !.to_node = to_node, !.same = same] IN
       th' = [th EXCEPT ![t] = IF ~urlOk THEN EndCall(IdleThread, call, EIO)
                               ELSE IF plan = "end" THEN EndCall(IdleThread, call, 0)
                               ELSE StartTransaction(IdleThread, "buf", call)]
    /\ UNCHANGED <<gReadStreams, gSSLPropertiesDict, sslDicts, connectionstate,
                   gSuppressAllUI, gNetworkGlobals, downloadQueue>>

\* network_dir_is_empty after its PROPFIND: parseErr and num_entries are what
\* parse_file_count gives
network_dir_is_empty_anyCount(error, parseErr, num_entries) ==
    IF error # 0 THEN error ELSE parseErr
network_dir_is_empty(error, parseErr, num_entries) ==
    IF error # 0 THEN error
    ELSE IF parseErr # 0 THEN parseErr
    ELSE IF num_entries > 1 THEN ENOTEMPTY
    ELSE 0

\* the most entries a PROPFIND of depth 1 reports
MaxEntries == 2

\* A call goes on after a transaction has ended with th[t].error: with its next
\* transaction, or with its epilogue and its result.  lmh and eth are the Last-Modified and
\* ETag headers of the response, plm and ptag what parse_cachevalidators gives, parseErr
\* and num_entries what parse_file_count gives.
OpContinue(t, lmh, eth, plm, ptag, parseErr, num_entries) ==
    /\ th[t].pc = "done"
    /\ Pending(th[t])
    /\ th[t].call.op \in FileOperations
    /\ LET r == th[t]
           call == r.call
           lm == DateStringToTime(lmh)
           tag == EntityTagOf(eth)
           put == [call EXCEPT !.putLM = lmh, !.putETag = eth, !.error = r.error]
           empty == network_dir_is_empty(r.error, parseErr, num_entries)
           checked == [call EXCEPT !.error = empty, !.num_entries = num_entries]
       IN
        /\ (call.phase # "put" \/ r.error # 0 => lmh = "absent" /\ eth = "absent")
        /\ (call.phase # "propfind" \/ r.error # 0 => plm = -1 /\ ptag = NoEntityTag)
        /\ (call.phase # "check" \/ r.error # 0 => parseErr = 0 /\ num_entries = 0)
        /\ (parseErr # 0 => num_entries = 0)
        /\ th' = [th EXCEPT ![t] =
             CASE call.op = "fsync" /\ call.phase = "put" ->
                      IF NeedsValidators(r.error, lm, tag)
                      THEN StartTransaction(r, "buf", [put EXCEPT !.phase = "propfind"])
                      ELSE EndCall(r, IF r.error = 0
                                      THEN [put EXCEPT !.last_modified = lm,
                                                       !.entity_tag = tag]
                                      ELSE put, r.error)
               [] call.op = "fsync" /\ call.phase = "propfind" ->
                      EndCall(r, [call EXCEPT !.propLM = plm, !.propETag = ptag,
                                              !.last_modified = plm, !.entity_tag = ptag], 0)
               [] call.op = "rmdir" /\ call.phase = "check" ->
                      IF empty = 0
                      THEN StartTransaction(r, "buf", [checked EXCEPT !.phase = "delete"])
                      ELSE EndCall(r, checked, empty)
               [] call.op = "rename" /\ call.phase = "check" ->
                      IF empty = 0
                      THEN StartTransaction(r, "buf", [checked EXCEPT !.phase = "move"])
                      ELSE EndCall(r, checked, empty)
               [] OTHER -> EndCall(r, call, r.error)]
    /\ UNCHANGED <<gReadStreams, gSSLPropertiesDict, sslDicts, connectionstate,
                   gSuppressAllUI, gNetworkGlobals, downloadQueue>>

\* the error network_mount returns when its OPTIONS or its PROPFIND failed with error
MountError(error) == IF error # EACCES THEN ENODEV ELSE ECANCELED

\* whether network_mount sets MNT_RDONLY in *server_mount_flags for a DAV level
MountReadOnly_never(dav_level) == FALSE
MountReadOnly(dav_level) == dav_level = 1

\* the record of a call of network_mount: the DAV header of the OPTIONS response (as its
\* items), the level parsed from it, MNT_RDONLY in *server_mount_flags, and what
\* network_getDAVLevel and network_stat returned
MountCall(phase) ==
    [op |-> "mount", phase |-> phase, items |-> <<>>, dav_level |-> 0,
     MNT_RDONLY |-> FALSE, getDAVLevel |-> 0, stat |-> 0, isDir |-> FALSE]

\* A thread enters network_mount: network_getDAVLevel sends OPTIONS.
network_mount(t) ==
    /\ th[t].pc = "idle"
    /\ th' = [th EXCEPT ![t] = StartTransaction(IdleThread, "buf", MountCall("options"))]
    /\ UNCHANGED <<gReadStreams, gSSLPropertiesDict, sslDicts, connectionstate,
                   gSuppressAllUI, gNetworkGlobals, downloadQueue>>

\* network_mount goes on after a transaction has ended with th[t].error.  items is the DAV
\* header of the OPTIONS response and direct how its C string is got; parseErr is what
\* parse_stat returns and isDir whether it reports a directory.
MountContinue(t, items, direct, parseErr, isDir) ==
    /\ th[t].pc = "done"
    /\ Pending(th[t])
    /\ th[t].call.op = "mount"
    /\ LET r == th[t]
           call == r.call
           level0 == ParseDAVLevel(JoinItems(items), direct)
           dav_level == IF level0 > 2 THEN 2 ELSE level0
           got == [call EXCEPT !.items = items, !.dav_level = dav_level,
                               !.MNT_RDONLY = @ \/ MountReadOnly(dav_level)]
           stat == IF r.error # 0 THEN r.error ELSE parseErr
       IN
        /\ (call.phase # "options" \/ r.error # 0 => items = <<>> /\ direct)
        /\ (call.phase # "stat" \/ r.error # 0 => parseErr = 0 /\ ~isDir)
        /\ (parseErr # 0 => ~isDir)
        /\ th' = [th EXCEPT ![t] =
             IF call.phase = "options"
             THEN IF r.error # 0
                  THEN EndCall(r, [call EXCEPT !.getDAVLevel = r.error], MountError(r.error))
                  ELSE IF dav_level \notin {1, 2}
                  THEN EndCall(r, got, ENODEV)
                  ELSE StartTransaction(r, "buf", [got EXCEPT !.phase = "stat"])
             ELSE EndCall(r, [call EXCEPT !.stat = stat, !.isDir = isDir],
                          IF stat # 0 THEN MountError(stat)
                          ELSE IF ~isDir THEN ENODEV
                          ELSE 0)]
    /\ UNCHANGED <<gReadStreams, gSSLPropertiesDict, sslDicts, connectionstate,
                   gSuppressAllUI, gNetworkGlobals, downloadQueue>>

\* the tokens parse_lock finds in the responses to LOCK
NewLockTokens == {"opaquelocktoken:2"}

\* A thread enters network_lock for uid on a node that holds token, acquired by token_uid;
\* urlOk and created say that create_cfurl_from_node and CFStringCreateWithFormat worked.
network_lock(t, urlOk, created, uid, refresh, token, token_uid) ==
    /\ th[t].pc = "idle"
    /\ (token = NoLockToken) = (token_uid = NoUid)
    /\ (refresh => token # NoLockToken)
    /\ LET call == LockCall("lock", uid, refresh, token, token_uid) IN
       th' = [th EXCEPT ![t] = IF urlOk /\ created
                               THEN StartTransaction(IdleThread, "buf", call)
                               ELSE EndCall(IdleThread, call, EIO)]
    /\ UNCHANGED <<gReadStreams, gSSLPropertiesDict, sslDicts, connectionstate,
                   gSuppressAllUI, gNetworkGlobals, downloadQueue>>

\* the end of network_unlock, which every path reaches with its error: the node's lock
\* token is freed and its uid cleared
ClearLockToken_onSuccess(call, error) ==
    IF error = 0
    THEN [call EXCEPT !.file_locktoken = NoLockToken, !.file_locktoken_uid = NoUid]
    ELSE call
ClearLockToken(call, error) ==
    [call EXCEPT !.file_locktoken = NoLockToken, !.file_locktoken_uid = NoUid]

\* A thread enters network_unlock on a node that holds token: the node's token and uid are
\* cleared on every path
network_unlock(t, urlOk, created, token, token_uid) ==
    /\ th[t].pc = "idle"
    /\ token # NoLockToken
    /\ token_uid # NoUid
    /\ LET call == LockCall("unlock", NoUid, FALSE, token, token_uid) IN
       th' = [th EXCEPT ![t] = IF urlOk /\ created
                               THEN StartTransaction(IdleThread, "buf", call)
                               ELSE EndCall(IdleThread, ClearLockToken(call, EIO), EIO)]
    /\ UNCHANGED <<gReadStreams, gSSLPropertiesDict, sslDicts, connectionstate,
                   gSuppressAllUI, gNetworkGlobals, downloadQueue>>

\* send_transaction has returned to network_lock or network_unlock: parse_lock returns
\* parseErr and, with 0, locktoken
LockContinue(t, parseErr, locktoken) ==
    /\ th[t].pc = "done"
    /\ Pending(th[t])
    /\ th[t].call.op \in LockOperations
    /\ (th[t].call.op = "unlock" \/ th[t].error # 0 => parseErr = 0)
    /\ (th[t].call.op = "unlock" \/ th[t].error # 0 \/ parseErr # 0) = (locktoken = NoLockToken)
    /\ LET r == th[t]
           call == [r.call EXCEPT !.transaction = r.error, !.parse_lock = parseErr,
                                  !.locktoken = locktoken]
       IN  th' = [th EXCEPT ![t] =
             IF call.op = "unlock"
             THEN EndCall(r, ClearLockToken(call, r.error), r.error)
             ELSE IF r.error # 0
             THEN EndCall(r, call, r.error)
             ELSE IF parseErr # 0
             THEN EndCall(r, call, parseErr)
             ELSE EndCall(r, [call EXCEPT !.file_locktoken = locktoken,
                                          !.file_locktoken_uid =
                                              IF call.refresh THEN @ ELSE call.uid], 0)]
    /\ UNCHANGED <<gReadStreams, gSSLPropertiesDict, sslDicts, connectionstate,
                   gSuppressAllUI, gNetworkGlobals, downloadQueue>>

\* the test each variant makes first: the mount fails on disconnects and the connection
\* is down
ConnectionDownFailFast_never(suppress, state) == FALSE
ConnectionDownFailFast_unlessSuppressed(suppress, state) ==
    ~suppress /\ state # WEBDAV_CONNECTION_UP
ConnectionDownFailFast(suppress, state) ==
    suppress /\ state # WEBDAV_CONNECTION_UP

\* the statusCode and responseRef the loop gives authcache_apply
ApplyArguments_first(r) == [statusCode |-> 0, responseRef |-> FALSE]
ApplyArguments(r) == [statusCode |-> r.statusCode, responseRef |-> r.responseRef]

\* One pass through the top of the loop: the request is built (hdr says how the calls
\* that build conditional headers go), authcache_apply is called, returns applyErr and
\* stores the generation of the credentials, written as the number of the call;
\* then the variant is entered and makes its connection-down test.
LoopIteration(t, applyErr, hdr) ==
    /\ th[t].pc = "loop"
    /\ LET r == [th[t] EXCEPT !.streamError = NoStreamError, !.ctx = "none", !.hse = 0,
                              !.asked = FALSE, !.overrideHeld = FALSE,
                              !.respStatus = 0, !.respLen = 0, !.respClose = FALSE,
                              !.message = IF th[t].call.op = "open"
                                          THEN OpenMessage(th[t], hdr)
                                          ELSE MessageFor(th[t].call),
                              !.hdr = hdr,
                              !.nApply = @ + 1, !.apply = ApplyArguments(th[t]),
                              !.auth_generation = th[t].nApply + 1]
           released == [r EXCEPT !.responseRef = FALSE]
       IN  IF applyErr # 0
           THEN th' = [th EXCEPT ![t] = [r EXCEPT !.error = applyErr, !.applyFailed = TRUE,
                                                  !.pc = "done"]]
           ELSE IF ConnectionDownFailFast(gSuppressAllUI, connectionstate)
           THEN th' = [th EXCEPT ![t] = AfterVariant(released, EIO, 0)]      \* connection_down:
           ELSE th' = [th EXCEPT ![t] = [released EXCEPT !.error = 0, !.pc = "acquire"]]
    /\ UNCHANGED <<gReadStreams, gSSLPropertiesDict, sslDicts, connectionstate,
                   gSuppressAllUI, gNetworkGlobals, downloadQueue>>

\* open_stream_for_transaction up to get_ReadStreamRec
AcquireReadStreamRec(t) ==
    /\ th[t].pc = "acquire"
    /\ LET r == get_ReadStreamRec(gReadStreams) IN
        /\ gReadStreams' = MarkInUse(gReadStreams, r)
        /\ th' = [th EXCEPT ![t] =
                    IF r = NoRec
                    THEN AfterVariant(th[t], EIO, 0)       \* get_ReadStreamRec: result == 0 -> EIO
                    ELSE [th[t] EXCEPT !.rec = r, !.pc = "opening"]]
    /\ UNCHANGED <<gSSLPropertiesDict, sslDicts, connectionstate, gSuppressAllUI, gNetworkGlobals,
                   downloadQueue>>

\* the thread's record once its request has been handed to CFReadStreamOpen
Issued(r) ==
    [r EXCEPT !.nIssued = @ + 1,
              !.sent = IF r.message = NoMessage THEN @ ELSE Append(@, r.message)]

\* CFReadStreamOpen succeeds: the record's old stream is closed, the new one saved
OpenSucceeds(t) ==
    /\ th[t].pc = "opening"
    /\ gReadStreams' = [gReadStreams EXCEPT ![th[t].rec].readStreamRef = OpenStream]
    /\ th' = [th EXCEPT ![t] = [Issued(th[t]) EXCEPT !.pc = "reading"]]
    /\ UNCHANGED <<gSSLPropertiesDict, sslDicts, connectionstate, gSuppressAllUI, gNetworkGlobals,
                   downloadQueue>>

\* CFReadStreamOpen fails with stream error se
OpenFails(t, se) ==
    /\ th[t].pc = "opening"
    /\ LET r == [Issued(th[t]) EXCEPT !.streamError = se, !.ctx = "open"] IN
        IF se.domain = "SSL"
        THEN /\ th' = [th EXCEPT ![t] = [r EXCEPT !.pc = "ssl_check"]]
             /\ UNCHANGED <<gReadStreams, connectionstate>>
        ELSE FailAttempt(t, r, EIO)          \* HandleSSLErrors: not an SSL error
    /\ UNCHANGED <<gSSLPropertiesDict, sslDicts, gSuppressAllUI, gNetworkGlobals, downloadQueue>>

\* CFReadStreamRead returns -1 with stream error se
ReadFails(t, se) ==
    /\ th[t].pc = "reading"
    /\ LET r == [th[t] EXCEPT !.streamError = se, !.ctx = "read"] IN
        IF th[t].variant = "buf"
        THEN IF se.domain = "SSL"
             THEN /\ th' = [th EXCEPT ![t] = [r EXCEPT !.pc = "ssl_check"]]
                  /\ UNCHANGED <<gReadStreams, connectionstate>>
             ELSE FailAttempt(t, r, EIO)
        ELSE FailAttempt(t, r, 0)            \* HandleSSLErrors is not called
    /\ UNCHANGED <<gSSLPropertiesDict, sslDicts, gSuppressAllUI, gNetworkGlobals, downloadQueue>>

GetStatuses == {200, 206}     \* the statuses whose body stream_get_transaction writes to the cache file

\* the first n bytes of a response body: byte i is written i
Body(n) == [i \in 1 .. n |-> i]

\* what the read loop of stream_get_transaction has in its buffer when it ends, for a
\* body of len bytes
FirstRead_wholeBody(len) == Body(len)
FirstRead(len) == Body(IF len < first_read_len THEN len ELSE first_read_len)

\* the switch on the status code in stream_get_transaction: what it does to the cache file
FileAfterGet_alwaysAppends(file, status, bytes) ==
    IF status \in {200, 206} THEN file \o bytes ELSE file
FileAfterGet(file, status, bytes) ==
    CASE status = 200 -> bytes               \* ftruncate, lseek to 0, write
      [] status = 206 -> file \o bytes       \* lseek to EOF, write
      [] OTHER -> file

\* the test stream_get_transaction makes of what write() returned when asked to write
\* `asked' bytes: all of them for 200, any count for 206
WriteAccepted(status, asked, written) ==
    IF status = 200 THEN written = asked ELSE written >= 0

\* The read loop ends without a stream error and the response header is there: the response
\* has status `status', carries Connection: close iff `close' and a body of `len' bytes; for
\* a GET, `more' says that first_read_len bytes were read and the stream is not at its end,
\* and `outcome' is how the local calls go: "ok", "write_failed" (the write to the cache
\* file returns -1), "short_write" (it writes one byte less than asked), "fchflags_failed"
\* (setting UF_NODUMP), "enqueue_failed" (requestqueue_enqueue_download).
ReadResponse(t, status, close, len, more, outcome) ==
    /\ th[t].pc = "reading"
    /\ status \in {401, 407} => th[t].n401 < MaxAuthRounds
    /\ LET r == [th[t] EXCEPT !.respStatus = status, !.respLen = len]
           rs == r.rec
           background_load == r.variant = "get" /\ more /\ status \in GetStatuses
           totalRead == Len(FirstRead(len))
           written == CASE outcome = "write_failed" -> -1
                        [] outcome = "short_write" -> totalRead - 1
                        [] OTHER -> totalRead
           bytes == Body(IF written < 0 THEN 0 ELSE written)
           writes == r.variant = "get" /\ status \in GetStatuses
           up == [r EXCEPT !.setUp = TRUE, !.respClose = close,
                           !.wentUp = @ \/ connectionstate = WEBDAV_CONNECTION_DOWN,
                           !.file = IF r.variant = "get"
                                    THEN FileAfterGet(@, status, bytes) ELSE @]
       IN
        /\ (more => r.variant = "get")
        /\ (len > 0 => r.variant = "get")
        /\ (len > first_read_len => more)
        /\ (len < first_read_len => ~more)
        /\ (outcome = "write_failed" => writes)
        /\ (outcome = "short_write" => writes /\ totalRead > 0)
        /\ (outcome \in {"fchflags_failed", "enqueue_failed"} => background_load)
        /\ IF writes /\ ~WriteAccepted(status, totalRead, written)
           THEN \* the variant fails before it sets the connection state
                /\ UNCHANGED <<connectionstate, downloadQueue>>
                /\ gReadStreams' = release_ReadStreamRec(CloseStream(gReadStreams, rs), rs)
                /\ th' = [th EXCEPT ![t] = AfterVariant(
                            [r EXCEPT !.file = FileAfterGet(@, status, bytes)], EIO, 0)]
           ELSE
                /\ connectionstate' = WEBDAV_CONNECTION_UP
                /\ IF r.variant # "get"
                   THEN /\ gReadStreams' = release_ReadStreamRec(
                                IF close THEN CloseStream(gReadStreams, rs) ELSE gReadStreams, rs)
                        /\ th' = [th EXCEPT ![t] = AfterVariant(up, 0, status)]
                        /\ UNCHANGED downloadQueue
                   ELSE LET streams1 == [gReadStreams EXCEPT ![rs].connectionClose = close] IN
                        IF background_load
                        THEN IF outcome \in {"ok", "short_write"}
                             THEN /\ gReadStreams' = streams1      \* the record stays in use
                                  /\ downloadQueue' = downloadQueue \cup
                                         {[rec |-> rs, node |-> WEBDAV_DOWNLOAD_IN_PROGRESS]}
                                  /\ th' = [th EXCEPT ![t] = AfterVariant(
                                         [up EXCEPT !.node = WEBDAV_DOWNLOAD_IN_PROGRESS,
                                                    !.nEnqueue = @ + 1], 0, status)]
                             ELSE /\ gReadStreams' = release_ReadStreamRec(CloseStream(streams1, rs), rs)
                                  /\ UNCHANGED downloadQueue
                                  /\ th' = [th EXCEPT ![t] = AfterVariant(
                                         [up EXCEPT !.node = IF outcome = "enqueue_failed"
                                                             THEN WEBDAV_DOWNLOAD_IN_PROGRESS
                                                             ELSE r.node,
                                                    !.nEnqueue = @ + (IF outcome = "enqueue_failed"
                                                                      THEN 1 ELSE 0)], EIO, 0)]
                        ELSE /\ gReadStreams' = release_ReadStreamRec(
                                     IF close THEN CloseStream(streams1, rs) ELSE streams1, rs)
                             /\ UNCHANGED downloadQueue
                             /\ th' = [th EXCEPT ![t] = AfterVariant(
                                         [up EXCEPT !.node = WEBDAV_DOWNLOAD_FINISHED], 0, status)]
    /\ UNCHANGED <<gSSLPropertiesDict, sslDicts, gSuppressAllUI, gNetworkGlobals>>

\* The read loop ends without a stream error but there is no response header: the variant
\* fails before it has set the connection state.
ReadEndsInLocalError(t) ==
    /\ th[t].pc = "reading"
    /\ gReadStreams' = release_ReadStreamRec(CloseStream(gReadStreams, th[t].rec), th[t].rec)
    /\ th' = [th EXCEPT ![t] = AfterVariant(th[t], EIO, 0)]
    /\ UNCHANGED <<gSSLPropertiesDict, sslDicts, connectionstate, gSuppressAllUI, gNetworkGlobals,
                   downloadQueue>>

-----------------------------------------------------------------------------
(* HandleSSLErrors, for a stream error in the SSL domain.  The function takes no lock: *)
(* its reads and writes of gSSLPropertiesDict are separate steps.                      *)

\* if ( gSSLPropertiesDict == NULL )
HSE_TestNull(t) ==
    /\ th[t].pc = "ssl_check"
    /\ th' = [th EXCEPT ![t].pc = IF gSSLPropertiesDict = NULL THEN "ssl_create"
                                                              ELSE "ssl_classify"]
    /\ UNCHANGED <<gReadStreams, gSSLPropertiesDict, sslDicts, connectionstate,
                   gSuppressAllUI, gNetworkGlobals, downloadQueue>>

\* gSSLPropertiesDict = CFDictionaryCreateMutable(...)
HSE_CreateDict(t) ==
    /\ th[t].pc = "ssl_create"
    /\ sslDicts' = [sslDicts EXCEPT ![t] = EmptyDict]
    /\ gSSLPropertiesDict' = t
    /\ th' = [th EXCEPT ![t].pc = "ssl_classify"]
    /\ UNCHANGED <<gReadStreams, connectionstate, gSuppressAllUI, gNetworkGlobals, downloadQueue>>

\* the fall-back test and the switch, up to the call of ConfirmCertificate
HSE_Classify(t) ==
    /\ th[t].pc = "ssl_classify"
    /\ LET d == gSSLPropertiesDict
           error == th[t].streamError.error
           r == [th[t] EXCEPT !.overrideHeld =
                                  /\ CertClass(error) # "none"
                                  /\ sslDicts[d][ClassKey(CertClass(error))] # Absent]
       IN  IF WantsFallback(sslDicts[d], error)
           THEN /\ sslDicts' = [sslDicts EXCEPT
                                  ![d][kCFStreamSSLLevel] = "kCFStreamSocketSecurityLevelSSLv3"]
                /\ FailAttempt(t, r, EAGAIN)
           ELSE IF NeedsConfirm(sslDicts[d], error)
           THEN /\ th' = [th EXCEPT ![t] = [r EXCEPT !.pc = "ssl_confirm"]]
                /\ UNCHANGED <<sslDicts, gReadStreams, connectionstate>>
           ELSE /\ FailAttempt(t, r, EIO)
                /\ UNCHANGED sslDicts
    /\ UNCHANGED <<gSSLPropertiesDict, gSuppressAllUI, gNetworkGlobals, downloadQueue>>

\* ConfirmCertificate returns `accept'
HSE_Confirm(t, accept) ==
    /\ th[t].pc = "ssl_confirm"
    /\ LET d == gSSLPropertiesDict
           class == CertClass(th[t].streamError.error)
           r == [th[t] EXCEPT !.asked = TRUE]
       IN  IF accept
           THEN /\ sslDicts' = [sslDicts EXCEPT ![d] = AcceptOverrides(@, class)]
                /\ FailAttempt(t, r, EAGAIN)
           ELSE /\ UNCHANGED sslDicts
                /\ FailAttempt(t, r, ECANCELED)
    /\ UNCHANGED <<gSSLPropertiesDict, gSuppressAllUI, gNetworkGlobals, downloadQueue>>

-----------------------------------------------------------------------------
(* The download hand-off *)

\* A request thread takes a handed-off download from the request queue and enters
\* network_finish_download with its node and ReadStreamRec.
DequeueDownload(t, d) ==
    /\ th[t].pc = "idle"
    /\ t \in RequestThreads
    /\ d \in downloadQueue
    /\ downloadQueue' = downloadQueue \ {d}
    /\ th' = [th EXCEPT ![t] = [IdleThread EXCEPT !.pc = "download", !.variant = "download",
                                                 !.rec = d.rec, !.node = d.node]]
    /\ UNCHANGED <<gReadStreams, gSSLPropertiesDict, sslDicts, connectionstate,
                   gSuppressAllUI, gNetworkGlobals>>

\* network_finish_download runs to its end: `ok' iff the body was read to its end and
\* written to the cache file (or, when terminated, the last read found no more bytes).
network_finish_download(t, ok) ==
    /\ th[t].pc = "download"
    /\ LET rs == th[t].rec IN
        /\ gReadStreams' = release_ReadStreamRec(
                IF ok /\ ~gReadStreams[rs].connectionClose
                THEN gReadStreams ELSE CloseStream(gReadStreams, rs), rs)
        /\ th' = [th EXCEPT ![t] = [@ EXCEPT !.pc = "done", !.rec = NoRec,
                                             !.error = IF ok THEN 0 ELSE EIO]]
    /\ UNCHANGED <<gSSLPropertiesDict, sslDicts, connectionstate, gSuppressAllUI, gNetworkGlobals,
                   downloadQueue>>

\* network_finish_download step by step: the loop of a check of the terminated bit and a
\* read of the stream.

\* the two ways out of network_finish_download: with ok the stream is closed only if the
\* connection is to be closed, and 0 is returned; otherwise the stream is closed and EIO
\* is returned. The ReadStreamRec is released on both.
FinishDownloadExit(t, r, ok) ==
    /\ LET rs == th[t].rec IN
          gReadStreams' = release_ReadStreamRec(
                IF ok /\ ~gReadStreams[rs].connectionClose
                THEN gReadStreams ELSE CloseStream(gReadStreams, rs), rs)
    /\ th' = [th EXCEPT ![t] = [r EXCEPT !.pc = "done", !.rec = NoRec,
                                         !.error = IF ok THEN 0 ELSE EIO]]

\* the top of the loop: terminated is (node->file_status & WEBDAV_DOWNLOAD_TERMINATED) != 0
\* as the thread reads it
FinishDownloadCheck(t, terminated) ==
    /\ th[t].pc = "download"
    /\ th' = [th EXCEPT ![t] =
                IF terminated
                THEN [@ EXCEPT !.pc = "download_last",
                               !.dl = [@ EXCEPT !.observed = TRUE,
                                                !.atObserve = th[t].dl.nWritten]]
                ELSE [@ EXCEPT !.pc = "download_read"]]
    /\ UNCHANGED <<gReadStreams, gSSLPropertiesDict, sslDicts, connectionstate,
                   gSuppressAllUI, gNetworkGlobals, downloadQueue>>

\* the download was complete iff the 1-byte read found no byte
LastReadComplete_unlessError(bytesRead) == bytesRead >= 0
LastReadComplete(bytesRead) == bytesRead = 0

\* the 1-byte CFReadStreamRead after the bit was seen; bytesRead is -1, 0 or 1
FinishDownloadLastRead(t, bytesRead) ==
    /\ th[t].pc = "download_last"
    /\ LET r == [th[t] EXCEPT !.dl = [@ EXCEPT !.nSmallReads = th[t].dl.nSmallReads + 1,
                                               !.lastRead = bytesRead]]
       IN  FinishDownloadExit(t, r, LastReadComplete(bytesRead))
    /\ UNCHANGED <<gSSLPropertiesDict, sslDicts, connectionstate, gSuppressAllUI,
                   gNetworkGlobals, downloadQueue>>

\* the CFReadStreamRead of BODY_BUFFER_SIZE bytes and the write of what it read; written
\* is what write() returned
FinishDownloadRead(t, bytesRead, written) ==
    /\ th[t].pc = "download_read"
    /\ th[t].dl.nWritten + bytesRead <= MaxBodyLen
    /\ written <= bytesRead
    /\ LET r == [th[t] EXCEPT !.dl = [@ EXCEPT !.lastRead = bytesRead]]
       IN  IF bytesRead > 0
           THEN IF written = bytesRead
                THEN /\ th' = [th EXCEPT ![t] =
                                  [r EXCEPT !.pc = "download",
                                            !.dl = [@ EXCEPT !.nWritten = r.dl.nWritten + written]]]
                     /\ UNCHANGED gReadStreams
                ELSE FinishDownloadExit(t,
                        [r EXCEPT !.dl = [@ EXCEPT !.nWritten =
                                              r.dl.nWritten + (IF written > 0 THEN written ELSE 0)]],
                        FALSE)
           ELSE FinishDownloadExit(t, r, bytesRead = 0)
    /\ UNCHANGED <<gSSLPropertiesDict, sslDicts, connectionstate, gSuppressAllUI,
                   gNetworkGlobals, downloadQueue>>

\* the top-level call returns to its caller
Return(t) ==
    /\ th[t].pc = "done"
    /\ ~Pending(th[t])
    /\ th' = [th EXCEPT ![t] = IdleThread]
    /\ UNCHANGED <<gReadStreams, gSSLPropertiesDict, sslDicts, connectionstate,
                   gSuppressAllUI, gNetworkGlobals, downloadQueue>>

-----------------------------------------------------------------------------
(* Specifications *)

ApplyErrors == {0, EACCES}
Statuses == {200, 304, 401, 404, 407}
NodeStatuses == {WEBDAV_DOWNLOAD_NEVER, WEBDAV_DOWNLOAD_IN_PROGRESS, WEBDAV_DOWNLOAD_FINISHED}

\* one code of each kind HandleSSLErrors tells apart: fall back only, the three certificate
\* classes, a certificate class that is also in a fall-back range, none of these
SSLStreamErrors ==
    {SSLError(e) : e \in {errSSLProtocol, errSSLCertExpired, errSSLBadCert,
                          errSSLHostNameMismatch, errSSLUnknownRootCert, errSSLPeerBadCert}}
StreamErrors == PosixStreamErrors \cup SSLStreamErrors

\* One thread, every kind of stream error and response: the transaction loop, the three
\* variants and the negotiator.  No GET is handed off.
Next ==
    \E t \in {1} :
        \/ \E v \in Variants, ns \in NodeStatuses \cup {NoNode} : BeginTransaction(t, v, ns)
        \/ \E applyErr \in ApplyErrors : LoopIteration(t, applyErr, "ok")
        \/ AcquireReadStreamRec(t)
        \/ OpenSucceeds(t)
        \/ \E se \in StreamErrors : OpenFails(t, se)
        \/ \E se \in StreamErrors : ReadFails(t, se)
        \/ \E status \in Statuses, close \in BOOLEAN : ReadResponse(t, status, close, 0, FALSE, "ok")
        \/ ReadEndsInLocalError(t)
        \/ HSE_TestNull(t)
        \/ HSE_CreateDict(t)
        \/ HSE_Classify(t)
        \/ \E accept \in BOOLEAN : HSE_Confirm(t, accept)
        \/ Return(t)

Spec == Init /\ [][Next]_vars

\* Every thread, GET transactions with their hand-off to the download thread: the pool.
NextPool ==
    \E t \in Threads :
        \/ BeginTransaction(t, "get", WEBDAV_DOWNLOAD_NEVER)
        \/ LoopIteration(t, 0, "ok")
        \/ AcquireReadStreamRec(t)
        \/ OpenSucceeds(t)
        \/ OpenFails(t, POSIXError(ECONNRESET))
        \/ ReadFails(t, POSIXError(ECONNRESET))
        \/ \E close \in BOOLEAN, more \in BOOLEAN, handoff \in {"ok", "enqueue_failed"} :
              ReadResponse(t, 200, close, first_read_len, more, handoff)
        \/ \E d \in downloadQueue : DequeueDownload(t, d)
        \/ \E ok \in BOOLEAN : network_finish_download(t, ok)
        \/ Return(t)

\* the pool is looked at with the certificate UI allowed, so that a connection that is
\* down does not stop the threads from acquiring records
InitPool == Init /\ gSuppressAllUI = FALSE

SpecPool == InitPool /\ [][NextPool]_vars

\* Every thread, transactions over TLS whose streams fail with SSL errors: the negotiator
\* run by concurrent threads.
\* a fall-back code and a certificate code
RaceStreamErrors == {SSLError(errSSLProtocol), SSLError(errSSLCertExpired)}

NextSSL ==
    \E t \in Threads :
        \/ BeginTransaction(t, "buf", NoNode)
        \/ LoopIteration(t, 0, "ok")
        \/ AcquireReadStreamRec(t)
        \/ OpenSucceeds(t)
        \/ \E se \in RaceStreamErrors : OpenFails(t, se)
        \/ \E se \in RaceStreamErrors : ReadFails(t, se)
        \/ ReadResponse(t, 200, FALSE, 0, FALSE, "ok")
        \/ HSE_TestNull(t)
        \/ HSE_CreateDict(t)
        \/ HSE_Classify(t)
        \/ \E accept \in BOOLEAN : HSE_Confirm(t, accept)
        \/ Return(t)

SpecSSL == Init /\ [][NextSSL]_vars

\* The negotiator run by concurrent threads whose streams fail to open: with a fall-back
\* code, and with a code that is in no fall-back range and in no case of the switch
UnclassifiedRaceErrors == {SSLError(errSSLProtocol), SSLError(errSSLPeerBadCert)}
NextSSLOpen ==
    \E t \in Threads :
        \/ BeginTransaction(t, "buf", NoNode)
        \/ LoopIteration(t, 0, "ok")
        \/ AcquireReadStreamRec(t)
        \/ \E se \in UnclassifiedRaceErrors : OpenFails(t, se)
        \/ HSE_TestNull(t)
        \/ HSE_CreateDict(t)
        \/ HSE_Classify(t)
        \/ Return(t)
SpecSSLOpen == InitPool /\ [][NextSSLOpen]_vars

\* The negotiator run by a thread whose streams fail to open with every cause of a
\* retry (an EPIPE, a fall-back code and a code of each certificate class, which the user
\* accepts), while the streams of the other threads fail with a fall-back code
RetryStreamErrors ==
    {POSIXError(EPIPE)} \cup
    {SSLError(e) : e \in {errSSLProtocol, errSSLCertExpired, errSSLBadCert,
                          errSSLUnknownRootCert}}
NextSSLRetry ==
    \/ \E t \in Threads :
          \/ BeginTransaction(t, "buf", NoNode)
          \/ LoopIteration(t, 0, "ok")
          \/ AcquireReadStreamRec(t)
          \/ OpenFails(t, SSLError(errSSLProtocol))
          \/ HSE_TestNull(t)
          \/ HSE_CreateDict(t)
          \/ HSE_Classify(t)
          \/ Return(t)
    \/ \E t \in {1} :
          \/ \E se \in RetryStreamErrors : OpenFails(t, se)
          \/ HSE_Confirm(t, TRUE)
SpecSSLRetry == InitPool /\ [][NextSSLRetry]_vars

\* translate_status_to_error alone: send_transaction's loop has ended with error == 0 and
\* any status code
StatusCodes == 0 .. MaxStatusCode

InitStatus ==
    /\ gReadStreams = [s \in Slots |->
                          [inUse |-> FALSE, readStreamRef |-> NULL, connectionClose |-> FALSE,
                           nRelease |-> 0]]
    /\ gSSLPropertiesDict = NULL
    /\ sslDicts = [d \in Threads |-> EmptyDict]
    /\ connectionstate = WEBDAV_CONNECTION_UP
    /\ gSuppressAllUI = FALSE
    /\ gNetworkGlobals = InitialNetworkGlobals
    /\ downloadQueue = {}
    /\ \E status \in StatusCodes :
          th = [t \in Threads |->
                  IF t = 1 THEN [IdleThread EXCEPT !.pc = "translate", !.variant = "buf",
                                                   !.statusCode = status]
                  ELSE IdleThread]

\* error = translate_status_to_error(statusCode)
TranslateStatus(t) ==
    /\ th[t].pc = "translate"
    /\ th' = [th EXCEPT ![t] = [@ EXCEPT !.error = translate_status_to_error(th[t].statusCode),
                                         !.pc = "done"]]
    /\ UNCHANGED <<gReadStreams, gSSLPropertiesDict, sslDicts, connectionstate,
                   gSuppressAllUI, gNetworkGlobals, downloadQueue>>

NextStatus == TranslateStatus(1)

SpecStatus == InitStatus /\ [][NextStatus]_vars

\* The DAV header values looked at: up to MaxItems items joined by commas.  An item is a
\* piece of a header value with the level it stands for; a malformed item ends the
\* parsing, and stands for the level of what comes before its fault.
MaxItems == 3
DAVItems ==
    {[text |-> <<"1">>, level |-> 1, malformed |-> FALSE],
     [text |-> <<"2">>, level |-> 2, malformed |-> FALSE],
     [text |-> <<" ", "2">>, level |-> 2, malformed |-> FALSE],
     [text |-> <<"1", " ">>, level |-> 1, malformed |-> FALSE],
     [text |-> <<"x">>, level |-> 0, malformed |-> FALSE],
     [text |-> <<"1", "2">>, level |-> 0, malformed |-> FALSE],
     [text |-> <<"<", "1", ">">>, level |-> 0, malformed |-> FALSE],
     [text |-> <<"<", ",", ">">>, level |-> 0, malformed |-> FALSE],
     [text |-> <<>>, level |-> 0, malformed |-> FALSE],
     [text |-> <<"1", " ", "2">>, level |-> 1, malformed |-> TRUE],
     [text |-> <<"2", ";">>, level |-> 2, malformed |-> TRUE],
     [text |-> <<"<", ">", "2">>, level |-> 0, malformed |-> TRUE]}
ItemLists == UNION {[1 .. n -> DAVItems] : n \in 0 .. MaxItems}

InitDAV ==
    /\ gReadStreams = [s \in Slots |->
                          [inUse |-> FALSE, readStreamRef |-> NULL, connectionClose |-> FALSE,
                           nRelease |-> 0]]
    /\ gSSLPropertiesDict = NULL
    /\ sslDicts = [d \in Threads |-> EmptyDict]
    /\ connectionstate = WEBDAV_CONNECTION_UP
    /\ gSuppressAllUI = FALSE
    /\ gNetworkGlobals = InitialNetworkGlobals
    /\ downloadQueue = {}
    /\ \E items \in ItemLists :
          th = [t \in Threads |->
                  IF t = 1
                  THEN [IdleThread EXCEPT !.pc = "dav_header",
                            !.call = [op |-> "ParseDAVLevel", items |-> items,
                                      header |-> JoinItems(items), direct |-> TRUE,
                                      field_value |-> <<>>, dav_level |-> 0, done |-> FALSE]]
                  ELSE IdleThread]

\* ParseDAVLevel up to its loop: *dav_level = 0 and the header value as a C string
DAVFieldValue(t, direct) ==
    /\ th[t].pc = "dav_header"
    /\ LET c == th[t].call
           has == HasCString(c.header, direct) IN
       th' = [th EXCEPT ![t] = [@ EXCEPT
                 !.pc = IF has /\ c.header # <<>> THEN "dav_loop" ELSE "done",
                 !.call = [c EXCEPT !.direct = direct,
                                    !.field_value = IF has THEN c.header ELSE <<>>,
                                    !.done = ~has \/ c.header = <<>>]]]
    /\ UNCHANGED <<gReadStreams, gSSLPropertiesDict, sslDicts, connectionstate,
                   gSuppressAllUI, gNetworkGlobals, downloadQueue>>

\* one pass through the loop of ParseDAVLevel
DAVIteration(t) ==
    /\ th[t].pc = "dav_loop"
    /\ LET c == th[t].call
           p == ParseDAVIteration([field_value |-> c.field_value, dav_level |-> c.dav_level,
                                   done |-> c.done]) IN
       th' = [th EXCEPT ![t] = [@ EXCEPT
                 !.pc = IF p.done THEN "done" ELSE "dav_loop",
                 !.call = [c EXCEPT !.field_value = p.field_value,
                                    !.dav_level = p.dav_level, !.done = p.done]]]
    /\ UNCHANGED <<gReadStreams, gSSLPropertiesDict, sslDicts, connectionstate,
                   gSuppressAllUI, gNetworkGlobals, downloadQueue>>

NextDAV ==
    \/ \E direct \in BOOLEAN : DAVFieldValue(1, direct)
    \/ DAVIteration(1)

SpecDAV == InitDAV /\ [][NextDAV]_vars

\* ParseDAVLevel on every header value of up to MaxHeaderLen characters, whatever it is
\* made of.  The function runs on: each pass of its loop is followed by the next.
MaxHeaderLen == 3
DAVChars == {"1", "x", "<", ">", ",", ";", " ", "CR", "LF", "CTL"}
DAVHeaders == UNION {[1 .. n -> DAVChars] : n \in 0 .. MaxHeaderLen}

InitDAVChars ==
    /\ gReadStreams = [s \in Slots |->
                          [inUse |-> FALSE, readStreamRef |-> NULL, connectionClose |-> FALSE,
                           nRelease |-> 0]]
    /\ gSSLPropertiesDict = NULL
    /\ sslDicts = [d \in Threads |-> EmptyDict]
    /\ connectionstate = WEBDAV_CONNECTION_UP
    /\ gSuppressAllUI = FALSE
    /\ gNetworkGlobals = InitialNetworkGlobals
    /\ downloadQueue = {}
    /\ \E header \in DAVHeaders :
          th = [t \in Threads |->
                  IF t = 1
                  THEN [IdleThread EXCEPT !.pc = "dav_header",
                            !.call = [op |-> "ParseDAVLevel", items |-> <<>>,
                                      header |-> header, direct |-> TRUE,
                                      field_value |-> <<>>, dav_level |-> 0, done |-> FALSE]]
                  ELSE IdleThread]

SpecDAVChars == InitDAVChars /\ [][NextDAV]_vars /\ WF_vars(NextDAV)

\* One request thread that downloads: GET transactions on a node in every download status,
\* answered with bodies of every length, and every way the local calls can go; downloads
\* handed off are finished by the same thread afterwards.
GetResponses == {200, 206, 304, 404}
BodyLens == 0 .. MaxBodyLen
Outcomes == {"ok", "write_failed", "short_write", "fchflags_failed", "enqueue_failed"}

NextGet ==
    \E t \in {1} :
        \/ \E write_access \in BOOLEAN, ns \in NodeStatuses, invalid \in BOOLEAN,
              recent \in BOOLEAN, ad \in AttrCacheOutcomes :
              network_open(t, write_access, ns, invalid, recent, ad, 9)
        \/ LoopIteration(t, 0, "ok")
        \/ AcquireReadStreamRec(t)
        \/ OpenSucceeds(t)
        \/ ReadFails(t, POSIXError(ECONNRESET))
        \/ \E status \in GetResponses, close \in BOOLEAN, len \in BodyLens, more \in BOOLEAN,
              outcome \in Outcomes :
              ReadResponse(t, status, close, len, more, outcome)
        \/ ReadEndsInLocalError(t)
        \/ \E d \in downloadQueue : DequeueDownload(t, d)
        \/ \E ok \in BOOLEAN : network_finish_download(t, ok)
        \/ Return(t)

SpecGet == InitPool /\ [][NextGet]_vars

\* One thread that syncs, removes and renames: the operations made of several
\* transactions, with the responses and failures that steer them.
OpResponses == {204, 207, 401, 404}
ParseErrors == {0, EIO}
LastModifiedTimes == {-1, 9}
EntityTags == {NoEntityTag, "etag-2"}

NextOps ==
    \E t \in {1} :
        \/ \E urlOk \in BOOLEAN, token \in LockTokens \cup {NoLockToken}, created \in BOOLEAN :
              \/ network_fsync(t, urlOk, token, created)
              \/ network_remove(t, urlOk, token, created)
              \/ network_rmdir(t, urlOk, token, created)
        \/ \E urlOk \in BOOLEAN, to_node \in ToNodes, same \in BOOLEAN :
              network_rename(t, urlOk, to_node, same)
        \/ \E applyErr \in ApplyErrors : LoopIteration(t, applyErr, "ok")
        \/ AcquireReadStreamRec(t)
        \/ OpenSucceeds(t)
        \/ OpenFails(t, POSIXError(ECONNRESET))
        \/ ReadFails(t, POSIXError(EPIPE))
        \/ \E status \in OpResponses, close \in BOOLEAN :
              ReadResponse(t, status, close, 0, FALSE, "ok")
        \/ \E lmh \in LastModifiedHeaders, eth \in ETagHeaders, plm \in LastModifiedTimes,
              ptag \in EntityTags, parseErr \in ParseErrors, num_entries \in 0 .. MaxEntries :
              OpContinue(t, lmh, eth, plm, ptag, parseErr, num_entries)
        \/ Return(t)

SpecOps == InitPool /\ [][NextOps]_vars

\* One thread that mounts: OPTIONS answered with DAV headers of every level, then the
\* PROPFIND of network_stat.
MountHeaders ==
    {<<>>,
     <<[text |-> <<"x">>, level |-> 0, malformed |-> FALSE]>>,
     <<[text |-> <<"1">>, level |-> 1, malformed |-> FALSE]>>,
     <<[text |-> <<"1">>, level |-> 1, malformed |-> FALSE],
       [text |-> <<" ", "2">>, level |-> 2, malformed |-> FALSE]>>,
     <<[text |-> <<"<", "1", ">">>, level |-> 0, malformed |-> FALSE],
       [text |-> <<"2">>, level |-> 2, malformed |-> FALSE],
       [text |-> <<"1">>, level |-> 1, malformed |-> FALSE]>>}

NextMount ==
    \E t \in {1} :
        \/ network_mount(t)
        \/ \E applyErr \in ApplyErrors : LoopIteration(t, applyErr, "ok")
        \/ AcquireReadStreamRec(t)
        \/ OpenSucceeds(t)
        \/ OpenFails(t, POSIXError(ECONNRESET))
        \/ ReadFails(t, POSIXError(EPIPE))
        \/ \E status \in OpResponses, close \in BOOLEAN :
              ReadResponse(t, status, close, 0, FALSE, "ok")
        \/ \E items \in MountHeaders, direct \in BOOLEAN, parseErr \in ParseErrors,
              isDir \in BOOLEAN :
              MountContinue(t, items, direct, parseErr, isDir)
        \/ Return(t)

SpecMount == InitPool /\ [][NextMount]_vars

\* One thread that locks, refreshes and unlocks nodes for two users
NextLock ==
    \E t \in {1} :
        \/ \E urlOk \in BOOLEAN, created \in BOOLEAN, uid \in Uids, refresh \in BOOLEAN,
              token \in LockTokens \cup {NoLockToken}, token_uid \in Uids \cup {NoUid} :
              network_lock(t, urlOk, created, uid, refresh, token, token_uid)
        \/ \E urlOk \in BOOLEAN, created \in BOOLEAN, token \in LockTokens, token_uid \in Uids :
              network_unlock(t, urlOk, created, token, token_uid)
        \/ \E applyErr \in ApplyErrors : LoopIteration(t, applyErr, "ok")
        \/ AcquireReadStreamRec(t)
        \/ OpenSucceeds(t)
        \/ OpenFails(t, POSIXError(ECONNRESET))
        \/ ReadFails(t, POSIXError(EPIPE))
        \/ \E status \in OpResponses, close \in BOOLEAN :
              ReadResponse(t, status, close, 0, FALSE, "ok")
        \/ \E parseErr \in ParseErrors, locktoken \in NewLockTokens \cup {NoLockToken} :
              LockContinue(t, parseErr, locktoken)
        \/ Return(t)
SpecLock == InitPool /\ [][NextLock]_vars

\* The proxy settings refreshed again and again, as the proxy notifications arrive
NextProxy == \E dict \in ProxyDicts : network_update_proxy(dict)
SpecProxy == InitPool /\ [][NextProxy]_vars

\* One thread whose GET transactions are handed off to network_finish_download, which it
\* then runs itself and which is followed read by read. A thread that is in network_finish_download goes on: CFReadStreamRead and write
\* return.
FinishDownloadStep(t) ==
    \/ \E terminated \in BOOLEAN : FinishDownloadCheck(t, terminated)
    \/ \E bytesRead \in -1 .. 1 : FinishDownloadLastRead(t, bytesRead)
    \/ \E bytesRead \in -1 .. MaxBodyLen, written \in -1 .. MaxBodyLen :
          FinishDownloadRead(t, bytesRead, written)
NextDownload ==
    \E t \in {1} :
        \/ BeginTransaction(t, "get", WEBDAV_DOWNLOAD_NEVER)
        \/ LoopIteration(t, 0, "ok")
        \/ AcquireReadStreamRec(t)
        \/ OpenSucceeds(t)
        \/ \E close \in BOOLEAN, more \in BOOLEAN :
              ReadResponse(t, 200, close, first_read_len, more, "ok")
        \/ \E d \in downloadQueue : DequeueDownload(t, d)
        \/ FinishDownloadStep(t)
        \/ Return(t)
SpecDownload ==
    InitPool /\ [][NextDownload]_vars /\ \A t \in RequestThreads : WF_vars(FinishDownloadStep(t))

\* Every thread, transactions that are answered or whose streams fail, with the UI
\* suppressed or not: the connection state as concurrent transactions set and test it
NextDown ==
    \E t \in Threads :
        \/ BeginTransaction(t, "buf", NoNode)
        \/ LoopIteration(t, 0, "ok")
        \/ AcquireReadStreamRec(t)
        \/ OpenSucceeds(t)
        \/ OpenFails(t, POSIXError(ECONNRESET))
        \/ ReadFails(t, POSIXError(ECONNRESET))
        \/ \E close \in BOOLEAN : ReadResponse(t, 200, close, 0, FALSE, "ok")
        \/ Return(t)

SpecDown == Init /\ [][NextDown]_vars

\* One thread that opens files and syncs them: the GET of network_open with its
\* conditional headers, the PUT and the PROPFIND of network_fsync, challenges by the server
\* and every way the header calls and authcache_apply can go.
OpenResponses == {200, 304, 401, 404}

NextOpen ==
    \E t \in {1} :
        \/ \E write_access \in BOOLEAN, ns \in NodeStatuses, invalid \in BOOLEAN,
              recent \in BOOLEAN, ad \in AttrCacheOutcomes, lm \in LastModifiedTimes :
              network_open(t, write_access, ns, invalid, recent, ad, lm)
        \/ \E urlOk \in BOOLEAN, token \in LockTokens \cup {NoLockToken}, created \in BOOLEAN :
              network_fsync(t, urlOk, token, created)
        \/ \E applyErr \in ApplyErrors, hdr \in HeaderOutcomes : LoopIteration(t, applyErr, hdr)
        \/ AcquireReadStreamRec(t)
        \/ OpenSucceeds(t)
        \/ OpenFails(t, POSIXError(ECONNRESET))
        \/ ReadFails(t, POSIXError(EPIPE))
        \/ \E status \in OpenResponses, close \in BOOLEAN :
              ReadResponse(t, status, close, 0, FALSE, "ok")
        \/ \E lmh \in LastModifiedHeaders, eth \in ETagHeaders, plm \in LastModifiedTimes,
              ptag \in EntityTags :
              OpContinue(t, lmh, eth, plm, ptag, 0, 0)
        \/ Return(t)

SpecOpen == InitPool /\ [][NextOpen]_vars

-----------------------------------------------------------------------------
(* Properties of the ReadStreamRec pool (SpecPool) *)

\* who holds record s: the threads whose readStreamRecPtr is s, and the handed-off
\* downloads waiting in the queue with s
ThreadHolders(s) == {t \in Threads : th[t].rec = s}
QueuedHolders(s) == {d \in downloadQueue : d.rec = s}
LeaseCount(s) == Cardinality(ThreadHolders(s)) + Cardinality(QueuedHolders(s))
InUseSlots == {s \in Slots : gReadStreams[s].inUse}
HoldingThreads == {t \in Threads : th[t].rec # NoRec}

\* C1: a ReadStreamRec that has been handed out belongs to one transaction at a time:
\* from get_ReadStreamRec until release_ReadStreamRec no other thread (and no other
\* queued download) holds the same record, and the record stays marked in use.
C1_SlotMutualExclusion ==
    \A s \in Slots :
        /\ LeaseCount(s) <= 1
        /\ (LeaseCount(s) = 1 => gReadStreams[s].inUse)

\* two threads are inside transactions at once, each with a record of its own
C1_TwoSlotsHeld ==
    \E t1, t2 \in Threads :
        /\ t1 # t2
        /\ th[t1].rec # NoRec
        /\ th[t2].rec # NoRec
        /\ th[t1].pc = "reading"
        /\ th[t2].pc = "reading"

C3_LeaseInvariant ==
    \A s \in Slots :
        /\ gReadStreams[s].inUse <=> LeaseCount(s) = 1
        /\ gReadStreams[s].nRelease <= 1
        /\ (gReadStreams[s].inUse => gReadStreams[s].nRelease = 0)

\* the step part of C3: network_finish_download leaves its record released, and with
\* the stream closed when it fails
C3_FinishStep ==
    \A t \in Threads :
        (th[t].pc = "download" /\ th'[t].pc # "download") =>
            /\ ~gReadStreams'[th[t].rec].inUse
            /\ (th'[t].error # 0 => gReadStreams'[th[t].rec].readStreamRef = NULL)

\* C3: every record handed out is released exactly once: a record is in use exactly
\* while one thread or one queued download holds it (the foreground thread of a
\* hand-off does not release it, no exit path leaves it in use), no record is
\* released twice, and network_finish_download releases its record on every path,
\* after closing the stream when it fails.
C3_ReleasedExactlyOnce == []C3_LeaseInvariant /\ [][C3_FinishStep]_vars

\* a handed-off download has failed in network_finish_download, which has returned
C3_DownloadFinishedInError ==
    \E t \in Threads :
        /\ th[t].variant = "download"
        /\ th[t].pc = "done"
        /\ th[t].error = EIO
        /\ \E s \in Slots : gReadStreams[s].nRelease = 1 /\ gReadStreams[s].readStreamRef = NULL

-----------------------------------------------------------------------------
(* Properties of the transaction loop and the stream error handling (Spec) *)

InTransaction(t) == th[t].variant \in Variants
\* the stream of the thread's last attempt failed with a stream error and the variant
\* has returned
StreamFailed(t) == th[t].streamError # NoStreamError /\ th[t].pc \in {"loop", "done"}

Retryable(t) ==
    \/ th[t].vres = EAGAIN
    \/ (th[t].vres = 0 /\ th[t].statusCode \in {401, 407})

\* C5 (as stated): the loop re-issues the request if and only if the previous attempt
\* returned EAGAIN or status 401 or 407: after such an attempt the transaction never
\* ends without another request, after any other it ends.
C5_ReissueIffRetryable ==
    \A t \in Threads :
        (InTransaction(t) /\ th[t].nCalls > 0) =>
            /\ (th[t].pc = "loop" => Retryable(t))
            /\ (th[t].pc = "done" => ~Retryable(t))

\* C5 (amended): the loop goes round again if and only if the previous attempt returned
\* EAGAIN or status 401 or 407, and the request is then re-issued unless authcache_apply
\* fails, which ends the transaction with that error; any other status or error ends the
\* loop after that attempt.  A transaction answered 401 once and then 2xx, with no
\* retried stream error, issues exactly two requests.
C5_LoopContinuesIffRetryable ==
    \A t \in Threads :
        (InTransaction(t) /\ th[t].nCalls > 0) =>
            /\ (th[t].pc = "loop" => Retryable(t))
            /\ (th[t].pc = "done" /\ ~th[t].applyFailed =>
                    ~Retryable(t) /\ th[t].nCalls = th[t].n401 + th[t].nAgain + 1)
            /\ (th[t].pc = "done" /\ th[t].applyFailed =>
                    Retryable(t) /\ th[t].error # 0 /\ th[t].nCalls = th[t].n401 + th[t].nAgain)
            /\ (th[t].pc = "done" /\ th[t].error = 0 /\ th[t].n401 = 1 /\ th[t].nAgain = 0 =>
                    th[t].nIssued = 2 /\ th[t].nCalls = 2)

\* a transaction was answered 401, re-issued and then answered 2xx
C5_Success_After401 ==
    \E t \in Threads :
        /\ th[t].pc = "done"
        /\ th[t].error = 0
        /\ th[t].n401 = 1
        /\ th[t].nAgain = 0
        /\ th[t].statusCode = 200
        /\ th[t].nIssued = 2

\* C6 (as stated): when the user declines the certificate prompt, the transaction
\* returns ECANCELED and the fault's override is not recorded in the property bag,
\* whether the fault came up at stream open or during a read.
C6_DeclineSurfacesECANCELED ==
    \A t \in Threads :
        (th[t].pc = "done" /\ th[t].asked /\ th[t].hse = ECANCELED) =>
            /\ th[t].error = ECANCELED
            /\ CurrentBag[ClassKey(CertClass(th[t].streamError.error))] = Absent

\* C8 (as stated): when HandleSSLErrors runs for a certificate fault whose class's
\* override the bag already holds, it neither asks the user nor returns EAGAIN: it
\* returns ECANCELED or EIO, and the transaction fails.
C8_NoRetryWhenOverrideHeld ==
    \A t \in Threads :
        (th[t].overrideHeld /\ StreamFailed(t)) =>
            /\ ~th[t].asked
            /\ th[t].hse \in {ECANCELED, EIO}
            /\ th[t].pc = "done"
            /\ th[t].error # 0

\* C8 (amended): when HandleSSLErrors runs for a certificate fault whose class's override
\* the bag already holds, it never asks the user.  It returns EAGAIN only through the
\* TLS -> SSLv3 fall back, when the fault's code is also in a fall-back range and the bag
\* has no SSL level yet (errSSLHostNameMismatch), which pins the level; otherwise it
\* returns EIO and the transaction fails: ENXIO with the connection state down.
C8_NoPromptWhenOverrideHeld ==
    \A t \in Threads :
        (th[t].overrideHeld /\ StreamFailed(t)) =>
            /\ ~th[t].asked
            /\ th[t].hse \in {EAGAIN, EIO}
            /\ (th[t].hse = EAGAIN =>
                    /\ InFallbackRange(th[t].streamError.error)
                    /\ CurrentBag[kCFStreamSSLLevel] # Absent
                    /\ th[t].pc = "loop")
            /\ (th[t].hse = EIO =>
                    /\ ~WantsFallback(CurrentBag, th[t].streamError.error)
                    /\ th[t].pc = "done"
                    /\ th[t].error = ENXIO
                    /\ connectionstate = WEBDAV_CONNECTION_DOWN)

\* the user's override for the fault's class was in the bag, the fault came again and
\* the transaction has failed without a prompt
C8_FaultAgainstHeldOverride ==
    \E t \in Threads :
        /\ th[t].overrideHeld
        /\ th[t].pc = "done"
        /\ th[t].hse = EIO
        /\ CertClass(th[t].streamError.error) = "expired"
        /\ CurrentBag[kCFStreamSSLAllowsExpiredCertificates] = "kCFBooleanTrue"

-----------------------------------------------------------------------------
(* Property of the SSL property bag under concurrent threads (SpecSSL) *)

\* C7 (as stated): once an entry is in the property bag it is never removed nor changed,
\* under any interleaving of the threads.
C7_BagMonotone ==
    [][\A k \in SSLKeys : CurrentBag[k] # Absent => CurrentBag'[k] = CurrentBag[k]]_vars

-----------------------------------------------------------------------------
(* Properties of the fail-fast test (Spec) *)

\* C11: when UI is suppressed and the connection state is down, a variant that is entered
\* (authcache_apply having succeeded) returns EIO at once: no record is acquired, no
\* stream opened, HandleSSLErrors not consulted, and the connection state, the record
\* table, the property bag, the download queue and the node are left as they were.
C11_FailFast ==
    [][\A t \in Threads :
          ( /\ th[t].pc = "loop"
            /\ th'[t] # th[t]
            /\ ~th'[t].applyFailed
            /\ gSuppressAllUI
            /\ connectionstate = WEBDAV_CONNECTION_DOWN ) =>
              /\ th'[t].pc = "done"
              /\ th'[t].vres = EIO
              /\ th'[t].error = EIO
              /\ th'[t].nCalls = th[t].nCalls + 1
              /\ th'[t].nIssued = th[t].nIssued
              /\ th'[t].rec = NoRec
              /\ th'[t].hse = 0
              /\ th'[t].node = th[t].node
              /\ gReadStreams' = gReadStreams
              /\ connectionstate' = connectionstate
              /\ gSSLPropertiesDict' = gSSLPropertiesDict
              /\ sslDicts' = sslDicts
              /\ downloadQueue' = downloadQueue]_vars

\* a PUT entered with UI suppressed and the connection down has returned EIO without a
\* stream
C11_PutFailedFast ==
    \E t \in Threads :
        /\ th[t].pc = "done"
        /\ th[t].variant = "file"
        /\ th[t].error = EIO
        /\ th[t].nCalls = 1
        /\ th[t].nIssued = 0
        /\ gSuppressAllUI
        /\ connectionstate = WEBDAV_CONNECTION_DOWN

-----------------------------------------------------------------------------
(* Properties of translate_status_to_error (SpecStatus) *)

Translated(t) == th[t].pc = "done" /\ th[t].variant = "buf"

\* C12 (as stated): status 414 is translated to ENAMETOOLONG, which is not what 423 and
\* 424 are translated to.
C12_414IsNameTooLong ==
    \A t \in Threads :
        (Translated(t) /\ th[t].statusCode = 414) =>
            /\ th[t].error = ENAMETOOLONG
            /\ th[t].error # translate_status_to_error(423)
            /\ th[t].error # translate_status_to_error(424)

\* the error kinds the table of C13 gives a status code, taken literally: 414 is one of
\* "every other 4xx"; a status code outside 100..599, which the table leaves out, is
\* given the result of the default branch
TableKinds(statusCode) ==
    CASE statusCode \div 100 = 2 -> {0}
      [] statusCode \in {401, 407} -> {EAUTH}
      [] statusCode \in {402, 403} -> {EPERM}
      [] statusCode \in {404, 409, 410} -> {ENOENT}
      [] statusCode \in {423, 424} -> {EBUSY}
      [] statusCode = 507 -> {ENOSPC}
      [] statusCode \div 100 = 4 -> {EINVAL}
      [] statusCode \div 100 \in {1, 3, 5} -> {ENOENT, EIO}
      [] OTHER -> {EIO}

-----------------------------------------------------------------------------
(* C14: a GET answered 200 with a body longer than first_read_len *)

\* the step of a thread in which the read loop of stream_get_transaction ends with a
\* response of status 200 whose body is longer than first_read_len
LongBodyStep(t) ==
    /\ th[t].pc = "reading"
    /\ th'[t].respStatus = 200
    /\ th'[t].respLen > first_read_len

\* what C14 states of that step: the first first_read_len bytes are in the cache file, the
\* node is in progress, the download was enqueued once with the node and the leased record,
\* which stays leased with its stream open, and the call returns success
HandedOff(t) ==
    /\ th'[t].file = Body(first_read_len)
    /\ th'[t].node = WEBDAV_DOWNLOAD_IN_PROGRESS
    /\ th'[t].nEnqueue = th[t].nEnqueue + 1
    /\ downloadQueue' = downloadQueue \cup
           {[rec |-> th[t].rec, node |-> WEBDAV_DOWNLOAD_IN_PROGRESS]}
    /\ gReadStreams'[th[t].rec].inUse
    /\ gReadStreams'[th[t].rec].readStreamRef = OpenStream
    /\ th'[t].vres = 0

-----------------------------------------------------------------------------
(* C16: what a GET response does to the cache file *)

\* the step of a thread in which stream_get_transaction has read a response and returns
\* success
GetSucceedsStep(t) ==
    /\ th[t].pc = "reading" /\ th[t].variant = "get"
    /\ th'[t].respStatus # 0
    /\ th'[t].vres = 0

\* C16: when stream_get_transaction returns success, a 200 has replaced the cache file by
\* the received bytes, a 206 has appended the received bytes to it, and a 304 has left it
\* untouched with the node's download status finished.
C16_CacheFileByStatus ==
    [][\A t \in Threads :
          GetSucceedsStep(t) =>
              LET received == FirstRead(th'[t].respLen) IN
              CASE th'[t].respStatus = 200 -> th'[t].file = received
                [] th'[t].respStatus = 206 -> th'[t].file = th[t].file \o received
                [] th'[t].respStatus = 304 ->
                       /\ th'[t].file = th[t].file
                       /\ th'[t].node = WEBDAV_DOWNLOAD_FINISHED
                [] OTHER -> TRUE]_vars

-----------------------------------------------------------------------------
(* C15: when network_open asks the server *)

\* network_open for read has returned success
OpenedForRead(t) ==
    /\ th[t].pc = "done" /\ th[t].error = 0
    /\ th[t].call.op = "open" /\ ~th[t].call.write_access

\* it did so without a request to the server
SkippedServer(t) == th[t].nIssued = 0

\* C15 as stated: network_open for read returns success without a request to the server
\* exactly if the node's download status was finished and its validation time within
\* the freshness window.
C15_SkipsOnlyIfFresh ==
    \A t \in Threads :
        OpenedForRead(t) =>
            (SkippedServer(t) <=>
                 th[t].call.status = WEBDAV_DOWNLOAD_FINISHED /\ ~th[t].call.invalid)

\* C15, amended: it does so exactly if the node was finished and fresh, or the cache file
\* could be filled from the AppleDouble header of the attributes cache; in every other
\* state a GET was sent and answered before it returns success.
C15_SkipsIfFreshOrAttrCache ==
    \A t \in Threads :
        OpenedForRead(t) =>
            /\ SkippedServer(t) <=>
                   \/ th[t].call.status = WEBDAV_DOWNLOAD_FINISHED /\ ~th[t].call.invalid
                   \/ th[t].call.attr = "ok"
            /\ ~SkippedServer(t) => th[t].respStatus \in {200, 206, 304}

\* a node that is finished but no longer fresh, and absent from the attributes cache, was
\* revalidated with a GET answered 304
C15_StaleRevalidated ==
    \E t \in Threads :
        /\ OpenedForRead(t)
        /\ th[t].call.status = WEBDAV_DOWNLOAD_FINISHED /\ th[t].call.invalid
        /\ th[t].call.attr = "absent"
        /\ th[t].nIssued = 1 /\ th[t].respStatus = 304

-----------------------------------------------------------------------------
(* C17 to C20: the requests of network_fsync, network_remove, network_rmdir, network_rename *)

\* the positions in the requests thread t has sent where the method is m
SentAt(t, m) == {i \in 1 .. Len(th[t].sent) : th[t].sent[i].method = m}

\* thread t is in a call of operation op, or at its end
InCall(t, op) == th[t].call.op = op

\* the call of thread t has returned
CallEnded(t) == th[t].pc = "done" /\ th[t].call.op \in Operations /\ th[t].call.phase = "end"

\* C17 as stated: every PUT of network_fsync and every DELETE of network_remove and
\* network_rmdir carries If: (<token>) if the node holds a lock token, and no If header if
\* it holds none.
C17_IfHeaderIffToken ==
    \A t \in Threads :
        \A i \in SentAt(t, "PUT") \cup SentAt(t, "DELETE") :
            th[t].sent[i].ifHeader =
                IF th[t].call.locktoken # NoLockToken
                THEN <<"(<", th[t].call.locktoken, ">)">> ELSE <<>>

\* C17, amended: they carry If: (<token>) if the node holds a lock token and the header
\* value could be created from it, and no If header otherwise; no other request of these
\* calls carries an If header.
C17_IfHeaderIffTokenAndCreated ==
    \A t \in Threads :
        \A i \in 1 .. Len(th[t].sent) :
            th[t].sent[i].ifHeader =
                IF /\ th[t].sent[i].method \in {"PUT", "DELETE"}
                   /\ th[t].call.locktoken # NoLockToken
                   /\ th[t].call.created
                THEN <<"(<", th[t].call.locktoken, ">)">> ELSE <<>>

\* network_fsync on a locked node has sent its PUT twice, once more after a 401, each time
\* with the If header
C17_BothPutsCarryToken ==
    \E t \in Threads :
        /\ InCall(t, "fsync") /\ th[t].call.locktoken \in LockTokens
        /\ Len(th[t].sent) = 2 /\ th[t].n401 = 1
        /\ \A i \in 1 .. 2 : /\ th[t].sent[i].method = "PUT"
                             /\ th[t].sent[i].ifHeader = IfHeaderValue(th[t].call.locktoken)

\* network_fsync has returned success
FsyncSucceeded(t) == CallEnded(t) /\ InCall(t, "fsync") /\ th[t].error = 0

C19_MoveOnlyAfterChecks ==
    \A t \in Threads :
        InCall(t, "rename") =>
            LET c == th[t].call IN
            /\ \A j \in SentAt(t, "MOVE") :
                   /\ ~c.same
                   /\ c.to_node = "dir" =>
                          /\ \E i \in SentAt(t, "PROPFIND") :
                                 i < j /\ th[t].sent[i].depth = "1"
                          /\ c.error = 0 /\ c.num_entries <= 1
            /\ c.to_node # "dir" => SentAt(t, "PROPFIND") = {}
            /\ c.same => CallEnded(t) /\ th[t].error = 0 /\ th[t].sent = <<>>
            /\ c.num_entries > 1 =>
                   CallEnded(t) /\ th[t].error = ENOTEMPTY /\ SentAt(t, "MOVE") = {}

\* a rename over an empty directory has checked it and then moved
C19_MovedOverEmptyDirectory ==
    \E t \in Threads :
        /\ CallEnded(t) /\ InCall(t, "rename") /\ th[t].error = 0
        /\ th[t].call.to_node = "dir" /\ th[t].call.num_entries = 1
        /\ SentAt(t, "PROPFIND") = {1} /\ SentAt(t, "MOVE") = {2}

\* C20: network_rmdir sends DELETE only after a depth-1 PROPFIND that succeeded and
\* reported at most one entry; with more than one entry it returns ENOTEMPTY, and if the
\* check fails it returns the check's error, in both cases without a DELETE.
C20_DeleteOnlyAfterCheck ==
    \A t \in Threads :
        InCall(t, "rmdir") =>
            LET c == th[t].call IN
            /\ \A j \in SentAt(t, "DELETE") :
                   /\ \E i \in SentAt(t, "PROPFIND") : i < j /\ th[t].sent[i].depth = "1"
                   /\ c.error = 0 /\ c.num_entries <= 1
            /\ c.num_entries > 1 =>
                   CallEnded(t) /\ th[t].error = ENOTEMPTY /\ SentAt(t, "DELETE") = {}
            /\ c.error # 0 =>
                   CallEnded(t) /\ th[t].error = c.error /\ SentAt(t, "DELETE") = {}

\* the check of a directory has failed with the server's 404 and network_rmdir has
\* returned ENOENT without a DELETE
C20_CheckFailedNoDelete ==
    \E t \in Threads :
        /\ CallEnded(t) /\ InCall(t, "rmdir")
        /\ th[t].error = ENOENT /\ th[t].call.error = ENOENT
        /\ th[t].respStatus = 404
        /\ SentAt(t, "PROPFIND") # {} /\ SentAt(t, "DELETE") = {}

-----------------------------------------------------------------------------
(* C22: ParseDAVLevel *)

\* the level a list of items stands for: the highest level of its items up to the first
\* malformed one
RECURSIVE LevelOfItems(_)
LevelOfItems(items) ==
    IF items = <<>> THEN 0
    ELSE LET rest == IF items[1].malformed THEN 0 ELSE LevelOfItems(Tail(items)) IN
         IF items[1].level > rest THEN items[1].level ELSE rest

\* ParseDAVLevel is running or has returned in thread t
InParseDAVLevel(t) == th[t].call.op = "ParseDAVLevel"
DAVParsed(t) == InParseDAVLevel(t) /\ th[t].pc = "done"

\* C22 as stated: ParseDAVLevel returns the highest of the levels 1 and 2 that are items of
\* the header value, up to the first malformed item.
C22_LevelOfHeader ==
    \A t \in Threads :
        DAVParsed(t) => th[t].call.dav_level = LevelOfItems(th[t].call.items)

\* C22, amended: it does so if it gets the header value as a C string, which it does not
\* if the value has to be copied and does not fit the buffer; then it returns 0.  The
\* level never decreases during parsing.
C22_LevelOfHeaderThatFits ==
    /\ [](\A t \in Threads :
            DAVParsed(t) =>
                th[t].call.dav_level =
                    IF th[t].call.direct \/ Len(th[t].call.header) < DAVBufferLen
                    THEN LevelOfItems(th[t].call.items) ELSE 0)
    /\ [][\A t \in Threads :
            InParseDAVLevel(t) => th'[t].call.dav_level >= th[t].call.dav_level]_vars

\* "2,1" has been parsed to level 2
C22_TwoThenOne ==
    \E t \in Threads :
        /\ DAVParsed(t)
        /\ th[t].call.header = <<"2", ",", "1">>
        /\ th[t].call.dav_level = 2

-----------------------------------------------------------------------------
(* C21: network_mount *)

\* network_mount has returned after an OPTIONS that succeeded
MountedAfterOptions(t) ==
    CallEnded(t) /\ InCall(t, "mount") /\ th[t].call.getDAVLevel = 0

\* C21 as stated: level 0 returns ENODEV without a PROPFIND, level 1 succeeds with
\* MNT_RDONLY, level 2 succeeds without it.
C21_LevelDecidesMount ==
    \A t \in Threads :
        MountedAfterOptions(t) =>
            LET c == th[t].call IN
            /\ c.dav_level = 0 =>
                   th[t].error = ENODEV /\ SentAt(t, "PROPFIND") = {}
            /\ c.dav_level = 1 => th[t].error = 0 /\ c.MNT_RDONLY
            /\ c.dav_level = 2 => th[t].error = 0 /\ ~c.MNT_RDONLY

\* C21, amended: level 0 returns ENODEV without a PROPFIND; level 1 sets MNT_RDONLY and
\* level 2 does not, and both succeed exactly if network_stat succeeds and reports a
\* directory; else they return ECANCELED if network_stat returned EACCES and ENODEV if not.
\* The OPTIONS is sent before any PROPFIND.
C21_LevelAndStatDecideMount ==
    \A t \in Threads :
        /\ InCall(t, "mount") =>
               \A j \in SentAt(t, "PROPFIND") :
                   /\ \E i \in SentAt(t, "OPTIONS") : i < j
                   /\ th[t].call.dav_level \in {1, 2}
        /\ MountedAfterOptions(t) =>
               LET c == th[t].call IN
               /\ c.dav_level \in 0 .. 2
               /\ c.MNT_RDONLY <=> c.dav_level = 1
               /\ c.dav_level = 0 =>
                      th[t].error = ENODEV /\ SentAt(t, "PROPFIND") = {}
               /\ c.dav_level \in {1, 2} =>
                      th[t].error = IF c.stat = 0 /\ c.isDir THEN 0
                                    ELSE IF c.stat = EACCES THEN ECANCELED
                                    ELSE ENODEV
               /\ th[t].error = 0 => SentAt(t, "PROPFIND") # {}

\* a server of level 1 has been mounted read-only, with OPTIONS and then PROPFIND
C21_MountedReadOnly ==
    \E t \in Threads :
        /\ MountedAfterOptions(t) /\ th[t].error = 0
        /\ th[t].call.dav_level = 1 /\ th[t].call.MNT_RDONLY
        /\ SentAt(t, "OPTIONS") = {1} /\ SentAt(t, "PROPFIND") = {2}

-----------------------------------------------------------------------------
(* C23: network_update_proxy *)

\* the dictionary enables the scheme and holds its host and its port
ProxyConfigured(e) == e.enable = <<1>> /\ e.host # NoValue /\ e.port # NoValue

\* C23 as stated, its second half: after every proxy refresh, for HTTP and for HTTPS
\* separately, a proxy that is disabled or whose host or port is missing is recorded
\* as disabled with an empty host.
C23_UnconfiguredIsEmpty ==
    \A k \in {"http", "https"} :
        ~ProxyConfigured(gNetworkGlobals.gProxyDict[k])
            => (gNetworkGlobals[k].Enabled = 0 /\ gNetworkGlobals[k].Server = "")

-----------------------------------------------------------------------------
(* C24: network_finish_download and the terminated bit *)

\* once the bit was seen, only the 1-byte read is left, and the cache file stays as it is
TerminatedSeen ==
    \A t \in Threads :
        th[t].dl.observed =>
            /\ th[t].pc \in {"download_last", "done"}
            /\ th[t].dl.nWritten = th[t].dl.atObserve
            /\ th[t].dl.nSmallReads = (IF th[t].pc = "done" THEN 1 ELSE 0)

\* the step that follows the check that saw the bit
LastReadStep ==
    \A t \in Threads :
        (th[t].pc = "download_last" /\ th'[t] # th[t]) =>
            LET rs == th[t].rec
                r == th'[t]
            IN  /\ r.pc = "done"
                /\ r.dl.nSmallReads = 1
                /\ ~gReadStreams'[rs].inUse
                /\ IF r.dl.lastRead = 0
                   THEN r.error = 0
                   ELSE r.error = EIO /\ gReadStreams'[rs].readStreamRef = NULL

\* C24: when network_finish_download sees the terminated bit at a check between reads it
\* does exactly one more read, of 1 byte: if that read returns no byte it returns 0 with
\* the ReadStreamRec released; if it returns a byte or an error it closes the stream,
\* releases the ReadStreamRec and returns EIO; no byte is written to the cache file after
\* the bit was seen; and the function does return.
C24_TerminatedDownloadEnds ==
    /\ []TerminatedSeen
    /\ [][LastReadStep]_vars
    /\ \A t \in RequestThreads :
          (th[t].pc = "download_last") ~> (th[t].pc = "done" /\ th[t].dl.nSmallReads = 1)

\* a download that had written bytes, saw the bit and found one more byte: aborted
C24_AbortedAfterBytes ==
    \E t \in Threads :
        /\ th[t].pc = "done"
        /\ th[t].dl.observed
        /\ th[t].dl.nWritten > 0
        /\ th[t].dl.lastRead = 1
        /\ th[t].error = EIO

-----------------------------------------------------------------------------
(* C25: network_lock and network_unlock *)

\* the requests of method m that thread t has sent all went under the credentials of uid
SentUnder(t, m, uid) == \A i \in SentAt(t, m) : th[t].sent[i].uid = uid

\* the call of network_lock of thread t has returned 0
LockSucceeded(t) == CallEnded(t) /\ InCall(t, "lock") /\ th[t].error = 0

\* C25: a fresh network_lock that succeeds stores the token of the response and the uid
\* of the caller on the node; a refresh that succeeds replaces the token and leaves the
\* stored uid, and its LOCK goes under the stored uid, not the caller's; a network_lock
\* that fails leaves token and uid as they were; the UNLOCK of network_unlock goes under
\* the stored uid.
C25_LockTokenAndUid ==
    \A t \in Threads :
        LET call == th[t].call IN
        /\ InCall(t, "lock") =>
              /\ SentUnder(t, "LOCK", IF call.refresh THEN call.old_uid ELSE call.uid)
              /\ LockSucceeded(t) =>
                    /\ call.file_locktoken = call.locktoken
                    /\ call.locktoken \in NewLockTokens
                    /\ call.file_locktoken_uid = (IF call.refresh THEN call.old_uid ELSE call.uid)
              /\ ~LockSucceeded(t) =>
                    /\ call.file_locktoken = call.old_locktoken
                    /\ call.file_locktoken_uid = call.old_uid
        /\ InCall(t, "unlock") => SentUnder(t, "UNLOCK", call.old_uid)

\* a refresh asked for by another user than the one who holds the lock has succeeded
C25_RefreshedByOther ==
    \E t \in Threads :
        /\ LockSucceeded(t)
        /\ th[t].call.refresh
        /\ th[t].call.uid # th[t].call.old_uid
        /\ SentAt(t, "LOCK") # {}
        /\ th[t].call.file_locktoken # th[t].call.old_locktoken

-----------------------------------------------------------------------------
(* C26: open_stream_for_transaction when every ReadStreamRec is in use *)

\* thread t leaves get_ReadStreamRec in this step, having found every record in use
AcquireWithNoneFree(t) ==
    th[t].pc = "acquire" /\ th'[t] # th[t] /\ InUseSlots = Slots

\* C26: a transaction that asks for a ReadStreamRec while all N+1 are in use gets none:
\* no record's inUse or stream changes, its new stream is not opened, and it returns an
\* error; it does not share a record that is held.
C26_NoSlotIsAnError ==
    [][\A t \in Threads :
          AcquireWithNoneFree(t) =>
              /\ gReadStreams' = gReadStreams
              /\ th'[t].rec = NoRec
              /\ th'[t].nIssued = th[t].nIssued
              /\ th'[t].pc = "done"
              /\ th'[t].error = EIO]_vars

\* a transaction has returned EIO without a stream opened, every record being held by
\* the others
C26_ReturnedWithoutSlot ==
    \E t \in Threads :
        /\ th[t].pc = "done"
        /\ th[t].error = EIO
        /\ th[t].nIssued = 0
        /\ th[t].nCalls = 1
        /\ th[t].rec = NoRec
        /\ InUseSlots = Slots

-----------------------------------------------------------------------------
(* C27: get_ReadStreamRec *)

FreeSlots == Slots \ InUseSlots
FreeOpenSlots == {s \in FreeSlots : gReadStreams[s].readStreamRef # NULL}
Lowest(S) == CHOOSE s \in S : \A o \in S : s <= o

\* the record C27 states for the table as it is
StatedSlot ==
    IF FreeOpenSlots # {} THEN Lowest(FreeOpenSlots)
    ELSE IF FreeSlots # {} THEN Lowest(FreeSlots)
    ELSE NoRec

\* C27: get_ReadStreamRec returns the free record of lowest index among those whose stream
\* is open if there is one, otherwise the free record of lowest index; the record returned
\* is marked in use, its stream is left as it is, and no other record changes.
C27_LowestOpenElseLowestFree ==
    [][\A t \in Threads :
          (th[t].pc = "acquire" /\ th'[t] # th[t] /\ FreeSlots # {}) =>
              /\ th'[t].rec = StatedSlot
              /\ gReadStreams'[StatedSlot].inUse
              /\ gReadStreams'[StatedSlot].readStreamRef = gReadStreams[StatedSlot].readStreamRef
              /\ \A s \in Slots \ {StatedSlot} : gReadStreams'[s] = gReadStreams[s]]_vars

\* a thread holds a record with an open stream that it got past a free record of lower
\* index whose stream was closed
C27_OpenPreferred ==
    \E t \in Threads :
        /\ th[t].pc = "opening"
        /\ gReadStreams[th[t].rec].readStreamRef # NULL
        /\ \E s \in FreeSlots : s < th[t].rec /\ gReadStreams[s].readStreamRef = NULL

-----------------------------------------------------------------------------
(* C28: TLS stream errors in the three variants *)

\* the attempt of thread t has ended on a stream error of the SSL domain
EndedOnSSLError(t) ==
    /\ th[t].pc \in {"loop", "done"}
    /\ th[t].streamError.domain = "SSL"
    /\ th[t].ctx \in {"open", "read"}

\* C28 as stated: in each of the three variants a stream error of the SSL domain, raised
\* by the open of the stream or by a read of the response, has been classified by
\* HandleSSLErrors when the attempt ends.
C28_SSLErrorsClassified ==
    \A t \in Threads : EndedOnSSLError(t) => th[t].hse # 0

-----------------------------------------------------------------------------
(* C29: what HandleSSLErrors returns *)

\* thread t is inside HandleSSLErrors, past the fetch of the stream error
InHandleSSLErrors(t) == th[t].pc \in {"ssl_check", "ssl_create", "ssl_classify", "ssl_confirm"}

\* C29, its last sentence: a call of HandleSSLErrors that returns an I/O error for a TLS
\* error it does not classify changes nothing: no step of the call changes the property
\* bag.
C29_UnclassifiedChangesNothing ==
    [][\A t \in Threads :
          ( /\ InHandleSSLErrors(t)
            /\ th'[t] # th[t]
            /\ th[t].streamError.error = errSSLPeerBadCert )
              => CurrentBag' = CurrentBag]_vars

-----------------------------------------------------------------------------
(* C30: authcache_apply in the transaction loop *)

\* thread t goes through the top of the loop in this step
IterationStarts(t) == th[t].pc = "loop" /\ th'[t] # th[t]

\* what C30 states authcache_apply is given by thread t, from what the attempt before
\* returned and the status of the response it read
StatedApplyArguments(t) ==
    IF th[t].nCalls = 0 \/ th[t].vres = EAGAIN
    THEN [statusCode |-> 0, responseRef |-> FALSE]
    ELSE [statusCode |-> th[t].respStatus, responseRef |-> TRUE]

\* C30: every iteration of the loop calls authcache_apply before the request is sent: with
\* status 0 and no response in the first iteration and in one that follows EAGAIN, with
\* the status (401 or 407) and the response of the attempt before in one that follows a
\* challenge; if authcache_apply returns an error the iteration sends no request and the
\* error is returned.
C30_ApplyBeforeSend ==
    [][\A t \in Threads :
          /\ IterationStarts(t) =>
                /\ th'[t].nApply = th[t].nApply + 1
                /\ th'[t].apply = StatedApplyArguments(t)
                /\ (th[t].nCalls > 0 /\ th[t].vres # EAGAIN => th[t].respStatus \in {401, 407})
                /\ th'[t].nIssued = th[t].nIssued
                /\ th'[t].applyFailed =>
                      /\ th'[t].pc = "done"
                      /\ th'[t].error \in ApplyErrors \ {0}
          /\ th'[t].nIssued > th[t].nIssued =>
                /\ th[t].nApply = th[t].nCalls + 1
                /\ ~th[t].applyFailed]_vars

\* an iteration that follows a 407: authcache_apply was given 407 and the response
C30_AppliedAfterChallenge ==
    \E t \in Threads :
        /\ th[t].pc = "acquire"
        /\ th[t].n401 = 1
        /\ th[t].apply = [statusCode |-> 407, responseRef |-> TRUE]

-----------------------------------------------------------------------------
(* Properties of network_open's GET (SpecOpen) *)

\* the request of thread t is built: the step of the loop that ends in authcache_apply
BuildsGet(t) ==
    /\ th[t].pc = "loop" /\ th'[t].pc # "loop" /\ th[t].call.op = "open"

\* the conditional headers as stated, for a node with download status `status', validator
\* lm and a cache file of `length' bytes
NoConditionalHeaders == [ifModifiedSince |-> NoHeader, ifRange |-> NoHeader, range |-> NoHeader]
StatedHeaders(status, lm, length) ==
    IF status = WEBDAV_DOWNLOAD_NEVER \/ lm = -1
    THEN NoConditionalHeaders
    ELSE IF status = WEBDAV_DOWNLOAD_FINISHED
    THEN [NoConditionalHeaders EXCEPT !.ifModifiedSince = <<RFC2616DateString(lm)>>]
    ELSE [NoConditionalHeaders EXCEPT !.ifRange = <<RFC2616DateString(lm)>>,
                                      !.range = <<length>>]
HeadersOf(m) == [ifModifiedSince |-> m.ifModifiedSince, ifRange |-> m.ifRange, range |-> m.range]

\* C32 as stated: the GET of network_open carries no conditional header when the download
\* status is never or last_modified is -1, If-Modified-Since with last_modified when the
\* status is finished, and If-Range with last_modified together with Range from the
\* length of the cache file otherwise.
C32_HeadersByNodeState ==
    [][\A t \in Threads :
        BuildsGet(t) =>
            HeadersOf(th'[t].message) =
                StatedHeaders(th[t].node, th[t].call.last_modified, Len(th[t].file))]_vars

\* C32 amended: the headers are as stated when the calls that build them succeed; when
\* the date string cannot be created there is no conditional header; when lseek fails or
\* the Range string cannot be created a GET for a file in progress carries none, while
\* If-Modified-Since does not depend on them.  Range is never sent without If-Range.
C32_HeadersByNodeStateAndCalls ==
    [][\A t \in Threads :
        BuildsGet(t) =>
            LET stated == StatedHeaders(th[t].node, th[t].call.last_modified, Len(th[t].file))
                sent == HeadersOf(th'[t].message)
            IN  /\ th'[t].hdr = "ok" => sent = stated
                /\ th'[t].hdr = "no_date" => sent = NoConditionalHeaders
                /\ th'[t].hdr \in {"lseek_failed", "no_length"} =>
                       sent = IF th[t].node = WEBDAV_DOWNLOAD_FINISHED
                              THEN stated ELSE NoConditionalHeaders
                /\ (sent.range # NoHeader => sent.ifRange # NoHeader)]_vars

\* a GET for a file in progress has been sent with If-Range and Range
C32_PartialGetSent ==
    \E t \in Threads :
        /\ InCall(t, "open") /\ th[t].sent # <<>>
        /\ th[t].sent[1].ifRange = <<RFC2616DateString(9)>>
        /\ th[t].sent[1].range = <<Len(OldFile)>>
        /\ th[t].sent[1].ifModifiedSince = NoHeader

-----------------------------------------------------------------------------
(* Properties of authcache_valid (SpecOpen) *)

\* thread t is in a transaction loop, and the step that ends its loop
InLoop(t) == th[t].pc \notin {"idle", "done"}
TransactionEnds(t) == InLoop(t) /\ th'[t].pc = "done"

\* the transaction of record r met no error and its last response has a status that
\* maps to success
MapsToSuccess(variant, status) ==
    status \div 100 = 2 \/ (variant = "get" /\ status = 304)
Succeeded(r) ==
    /\ ~r.applyFailed /\ r.nCalls > 0 /\ r.vres = 0
    /\ MapsToSuccess(r.variant, r.respStatus)

\* C31: authcache_valid is called once when a transaction ends without error and with a
\* final status that maps to success (2xx, or 304 for network_open), with the request of
\* the last attempt and the generation the last authcache_apply stored; it is not called
\* while the loop runs nor when the transaction fails.
C31_ValidIffSucceeded ==
    /\ [](\A t \in Threads : /\ th[t].nValid <= 1
                             /\ InLoop(t) => th[t].nValid = 0
                             /\ th[t].pc = "done" /\ th[t].nValid = 1 => Succeeded(th[t]))
    /\ [][\A t \in Threads :
            TransactionEnds(t) =>
                LET r == th'[t] IN
                /\ r.nValid = (IF Succeeded(r) THEN 1 ELSE 0)
                /\ r.error # 0 => r.nValid = 0
                /\ r.nValid = 1 =>
                      /\ r.sent # <<>>
                      /\ r.valid = [uid |-> r.sent[Len(r.sent)].uid,
                                    message |-> r.sent[Len(r.sent)],
                                    generation |-> r.nApply]]_vars

\* a GET challenged once and then answered 304 has been reported to the authcache
C31_ValidAfterChallenge ==
    \E t \in Threads :
        /\ th[t].pc = "done" /\ th[t].variant = "get" /\ th[t].n401 = 1
        /\ th[t].respStatus = 304 /\ th[t].error = 0
        /\ th[t].nValid = 1 /\ th[t].valid.generation = 2
        /\ th[t].valid.message.method = "GET"

-----------------------------------------------------------------------------
(* Properties of the streams that the records keep (Spec) *)

\* record s is released in the step by thread t
ReleasedBy(s, t) ==
    /\ gReadStreams[s].inUse /\ ~gReadStreams'[s].inUse
    /\ th[t].rec = s /\ th'[t].rec = NoRec
HoldsStream(streams, s) == streams[s].readStreamRef # NULL

\* the attempt that thread t has just ended read its response, without Connection: close
CompletedKeepAlive(r) ==
    r.vres = 0 /\ r.streamError = NoStreamError /\ ~r.respClose

\* what holds of every record whoever used it last: a record that is not in use keeps its
\* stream, a read error and Connection: close close it, and a stream that is opened
\* takes the place of the one the record had
StreamsClosed ==
    \A s \in Slots :
        /\ ~gReadStreams[s].inUse /\ ~gReadStreams'[s].inUse =>
               gReadStreams'[s].readStreamRef = gReadStreams[s].readStreamRef
        /\ \A t \in Threads :
              /\ ReleasedBy(s, t) /\ th'[t].ctx = "read" => ~HoldsStream(gReadStreams', s)
              /\ ReleasedBy(s, t) /\ th'[t].respClose => ~HoldsStream(gReadStreams', s)
              /\ th[t].rec = s /\ th[t].pc = "opening" /\ th'[t].pc = "reading" =>
                     gReadStreams'[s].readStreamRef = OpenStream

-----------------------------------------------------------------------------
(* The number of retries of a transaction (SpecSSLRetry) *)

\* C34 as stated: a top-level transaction is re-issued because of EAGAIN at most 5 times,
\* whatever the other threads do.
C34_AtMostFiveRetries ==
    \A t \in Threads : th[t].nAgain <= 5

-----------------------------------------------------------------------------
(* What a GET that is not answered 200, 206 or 304 leaves of the node (SpecOpen) *)

\* the attempt of thread t reads a response in the step
ReadsResponse(t) == th[t].pc = "reading" /\ th'[t].respStatus # 0

\* C35 as stated: a GET response whose status is not 200, 206 or 304 leaves the node's
\* download status and its cache file as they were, so that the GET sent again after a
\* 401 or 407 has the conditional headers of the first.
C35_OtherStatusKeepsNode ==
    [][\A t \in Threads :
        /\ ReadsResponse(t) /\ th[t].variant = "get"
             /\ th'[t].respStatus \notin {200, 206, 304} =>
                 th'[t].node = th[t].node /\ th'[t].file = th[t].file
        /\ BuildsGet(t) /\ th[t].message # NoMessage /\ th'[t].hdr = th[t].hdr =>
                 HeadersOf(th'[t].message) = HeadersOf(th[t].message)]_vars

-----------------------------------------------------------------------------
(* The hand-off and the node's download status (SpecGet) *)

\* stream_get_transaction returns to thread t in the step, after it was given a record
GetReturns(t) ==
    /\ th[t].variant = "get" /\ th[t].pc = "reading" /\ th'[t].pc # "reading"
\* and requestqueue_enqueue_download was called and failed
EnqueueFails(t) ==
    GetReturns(t) /\ th'[t].nEnqueue = th[t].nEnqueue + 1 /\ th'[t].vres # 0

\* C36 as stated: when stream_get_transaction returns 0 and the node's download status is
\* in progress, the download is in the queue with the record, which stays in use; when
\* requestqueue_enqueue_download fails, it returns an error, the stream is closed, the
\* record released and the node's download status is not left in progress.
C36_InProgressMeansEnqueued ==
    [][\A t \in Threads :
        /\ GetReturns(t) /\ th'[t].vres = 0
             /\ th'[t].node = WEBDAV_DOWNLOAD_IN_PROGRESS =>
                 /\ [rec |-> th[t].rec, node |-> WEBDAV_DOWNLOAD_IN_PROGRESS] \in downloadQueue'
                 /\ gReadStreams'[th[t].rec].inUse
        /\ EnqueueFails(t) =>
                 /\ th'[t].error # 0
                 /\ ~HoldsStream(gReadStreams', th[t].rec)
                 /\ ~gReadStreams'[th[t].rec].inUse
                 /\ th'[t].node # WEBDAV_DOWNLOAD_IN_PROGRESS]_vars

-----------------------------------------------------------------------------
(* What network_unlock leaves of the lock (SpecLock) *)

\* C37: when network_unlock has returned, the node holds no lock token and its lock uid is
\* 0, whether the UNLOCK succeeded, failed or was never sent; the call returns the error
\* of the UNLOCK transaction, or EIO when the request could not be built.
C37_UnlockAlwaysClears ==
    \A t \in Threads :
        CallEnded(t) /\ InCall(t, "unlock") =>
            /\ th[t].call.file_locktoken = NoLockToken
            /\ th[t].call.file_locktoken_uid = NoUid
            /\ th[t].call.old_locktoken # NoLockToken
            /\ IF th[t].nApply = 0
               THEN th[t].error = EIO /\ th[t].sent = <<>>
               ELSE th[t].error = th[t].call.transaction

\* an UNLOCK that the server refused has cleared the token and returned the error
C37_FailedUnlockCleared ==
    \E t \in Threads :
        /\ CallEnded(t) /\ InCall(t, "unlock")
        /\ SentAt(t, "UNLOCK") # {} /\ th[t].respStatus = 404 /\ th[t].error = ENOENT
        /\ th[t].call.file_locktoken = NoLockToken /\ th[t].call.file_locktoken_uid = NoUid

-----------------------------------------------------------------------------
(* The connection state once it is down, with the UI suppressed (SpecDown) *)

IsDown == gSuppressAllUI /\ connectionstate = WEBDAV_CONNECTION_DOWN

\* the step opens a stream for thread t; the step sets the connection state up
OpensStream(t) == th[t].pc = "opening" /\ th'[t].nIssued = th[t].nIssued + 1
SetsUp == connectionstate' = WEBDAV_CONNECTION_UP /\ connectionstate # WEBDAV_CONNECTION_UP

\* C38 as stated: with the UI suppressed, once the connection state is down no stream is
\* opened and the state is not set back to up.
C38_DownIsAbsorbing ==
    [][IsDown => ~SetsUp /\ \A t \in Threads : ~OpensStream(t)]_vars

\* C38 amended: with the UI suppressed and the connection down, an attempt that makes its
\* connection-down test ends there with EIO, touching neither the records nor the
\* connection state and opening no stream; the state is set up again only by an attempt
\* that was past its test and has read its response.
C38_DownFailsNewAttempts ==
    [][\A t \in Threads :
        /\ IsDown /\ th[t].pc = "loop" /\ th'[t].pc # "loop" =>
               /\ th'[t].pc = "done" /\ th'[t].error = EIO /\ th'[t].nIssued = th[t].nIssued
               /\ UNCHANGED <<gReadStreams, connectionstate>>
        /\ IsDown /\ SetsUp =>
               \E u \in Threads : th[u].pc = "reading" /\ th'[u].setUp /\ th'[u].wentUp]_vars

\* an attempt that was reading its response when another thread's failure set the
\* connection down has set it up again
C38_UpAgainByAttemptInFlight ==
    /\ gSuppressAllUI /\ connectionstate = WEBDAV_CONNECTION_UP
    /\ \E t, u \in Threads :
          /\ t # u
          /\ th[t].pc = "done" /\ th[t].wentUp /\ th[t].error = 0
          /\ th[u].pc = "done" /\ th[u].error = ENXIO

-----------------------------------------------------------------------------
(* Concurrent certificate faults of one class (SpecSSL) *)

\* the last attempt of thread t ended with ConfirmCertificate accepting a fault of class c
Accepted(t, c) ==
    /\ th[t].asked /\ th[t].hse = EAGAIN
    /\ th[t].streamError.domain = "SSL" /\ CertClass(th[t].streamError.error) = c

\* C39 as stated: when two threads hit a fault of the same certificate class and the user
\* accepts, ConfirmCertificate is called for one of them only, and an override that a
\* thread has recorded stays in the bag whatever the other thread does.
C39_OnePromptAndNoLostOverride ==
    /\ [](\A t, u \in Threads, c \in {"expired", "badcert", "root"} :
             Accepted(t, c) /\ Accepted(u, c) => t = u)
    /\ [][\A t \in Threads, c \in {"expired", "badcert", "root"} :
             Accepted(t, c) /\ CurrentBag[ClassKey(c)] # Absent =>
                 CurrentBag'[ClassKey(c)] # Absent]_vars

-----------------------------------------------------------------------------
(* Termination of ParseDAVLevel (SpecDAVChars) *)

\* C40: every pass through the loop of ParseDAVLevel either consumes at least one
\* character of the header value or leaves the loop, and ParseDAVLevel returns for every
\* header value.
C40_ParseDAVLevelTerminates ==
    /\ [][th[1].pc = "dav_loop" =>
             \/ Len(th'[1].call.field_value) < Len(th[1].call.field_value)
             \/ th'[1].pc = "done"]_vars
    /\ <>(th[1].pc = "done")

\* ParseDAVLevel has returned for a value that begins with a bare CR, of which the loop
\* consumed nothing
C40_LeftAtBareCR ==
    /\ th[1].pc = "done" /\ InCall(1, "ParseDAVLevel")
    /\ Len(th[1].call.header) = MaxHeaderLen
    /\ th[1].call.header[1] = "CR" /\ th[1].call.header[2] = ","
    /\ th[1].call.field_value = th[1].call.header
====
